---- MODULE Spec2Model ----
(***************************************************************************)
(* A state-machine model of the Google Calendar Timeline plugin: the token *)
(* store (TokenManager), the OAuth flow (GoogleAuth), the calendar client  *)
(* (CalendarAPI) and the sync orchestrator (SyncService).                  *)
(*                                                                         *)
(* Times are milliseconds, as Date.now() gives them; token lifetimes are   *)
(* seconds, as the provider gives them.  The plugin's persisted data.json  *)
(* is one object shared by the settings and the token record.              *)
(***************************************************************************)
EXTENDS Integers, Sequences, FiniteSets, TLC

\* ------------------------------------------------------------------ bounds
\* Number of clock ticks the model lets pass.
MaxTicks == 2
\* Number of access tokens the provider issues in one behaviour.
MaxIssued == 2

\* One clock tick of the model, in milliseconds: a multiple of the 1000 ms at
\* which the wait for the OAuth callback polls the auth window.
TickMs == 100 * 1000
\* Token lifetimes (seconds) the provider answers with: longer than the expiry
\* buffer, and short enough for the token to enter the buffer within the
\* ticks modelled.
ExpiresInChoices == {500}

\* ------------------------------------------------------- token store data
\* An OAuthToken; access = 0 stands for null (no token), refresh = 0 and
\* expires_at = 0 for an absent field.
NoToken == [access |-> 0, refresh |-> 0, expires_in |-> 0, expires_at |-> 0]

IsNull(token) == token.access = 0

\* The persisted plugin data (and the in-memory settings object, which has the
\* same keys): the token record's key and the settings' last sync time.
NoData == [token |-> NoToken, lastSyncTime |-> 0]

VARIABLES
    now,          \* Date.now()
    storageOk,    \* whether loadData()/saveData() currently succeed
    data,         \* the persisted plugin data object
    settings,     \* plugin.settings, the in-memory settings object
    cachedToken,  \* TokenManager.cachedToken
    issued,       \* number of access tokens the provider has issued
    loggedIn,     \* history: login() saved a token with a refresh token, and
                  \* neither logout() nor revokeToken() was called since
    last,         \* the call that has just settled, and how
    authWindow,   \* GoogleAuth.authWindow: the window of the latest login, 0 for null
    windows,      \* the auth windows, by the login() call that opened them
    lg,           \* the login() calls: where each stands, its timers and listener
    state,        \* SyncService.state
    events,       \* SyncService.events, the cache: a Map in insertion order
    sy,           \* the syncNow() and batch-fetch calls: where each stands
    selectedCalendars, \* settings.selectedCalendars
    gen,          \* number of syncs and batch fetches started
    invoked,      \* number of syncNow() invocations
    nList,        \* number of listCalendars() calls
    nBatch,       \* number of listEventsForMultipleCalendars() calls
    lastSuccess,  \* history: the events the cache held when a sync last ended
                  \* in success (what clearCache() left of them)
    emitted,      \* the events triggered and Notices shown by the step just taken
    api,          \* the CalendarAPI call that has just settled, and how
    lastView,     \* the read view of SyncService just called, and what it returned
    autoSync,     \* settings.autoSync
    syncIntervalId, \* SyncService.syncIntervalId, 0 for null
    timers,       \* the interval timers that are active, by id
    timerIds,     \* number of interval timers installed so far
    toggling,     \* the auto-sync toggle handlers awaiting saveSettings()
    due,          \* when each active interval timer fires next, where the
                  \* clock is followed
    called,       \* history: the latest auto-sync call, where calls are logged
    syncedAt,     \* history: when auto-sync last invoked syncNow(), -1 for never
    timeline,     \* TimelineView.timeline is set: the view is open
    currentDate,  \* TimelineView.currentDate
    items,        \* the items of the timeline's DataSet: what the view displays
    tk,           \* the getAccessToken() and logout() calls followed await by
                  \* await: where each stands
    destroyed     \* history: SyncService.destroy() has been called

authVars == <<now, storageOk, data, settings, cachedToken, issued, loggedIn, last>>
loginVars == <<authWindow, windows, lg>>
syncVars == <<state, events, sy, selectedCalendars, gen, invoked, nList, nBatch,
              lastSuccess, emitted>>
viewVars == <<timeline, currentDate, items>>
raceVars == <<tk, destroyed>>
apiVars == <<api, lastView, viewVars, raceVars>>
autoVars == <<autoSync, syncIntervalId, timers, timerIds, toggling, due, called,
              syncedAt>>

\* ------------------------------------------------------------ TokenManager
bufferMs == 5 * 60 * 1000

\* A plausible slip: the expiry check misses the instant the buffer starts.
isTokenExpired_Strict(token, t) ==
    IF token.expires_at = 0 THEN TRUE
    ELSE t > token.expires_at - bufferMs

\* A plausible slip: the expiry check without the 5-minute buffer.
isTokenExpired_NoBuffer(token, t) ==
    IF token.expires_at = 0 THEN TRUE
    ELSE t >= token.expires_at

isTokenExpired(token, t) ==
    IF token.expires_at = 0 THEN TRUE
    ELSE t >= token.expires_at - bufferMs

\* A plausible slip: the cache is not consulted.
getToken_AlwaysLoad(cache, d, ok, t) ==
    IF ~ok THEN [ret |-> NoToken, cache |-> cache, reads |-> 1]
    ELSE IF ~IsNull(d.token) THEN [ret |-> d.token, cache |-> d.token, reads |-> 1]
    ELSE [ret |-> NoToken, cache |-> cache, reads |-> 1]

\* getToken(): the token returned, the cache afterwards and the number of
\* loadData() calls made.
getToken(cache, d, ok, t) ==
    IF ~IsNull(cache) /\ ~isTokenExpired(cache, t)
    THEN [ret |-> cache, cache |-> cache, reads |-> 0]
    ELSE IF ~ok THEN [ret |-> NoToken, cache |-> cache, reads |-> 1]
    ELSE IF ~IsNull(d.token) THEN [ret |-> d.token, cache |-> d.token, reads |-> 1]
    ELSE [ret |-> NoToken, cache |-> cache, reads |-> 1]

getTokenSync(cache) == cache

\* A plausible slip: the expiry is not computed from the lifetime.
saveToken_NoExpiry(token, cache, d, ok, t) ==
    IF ok
    THEN [ok |-> TRUE, data |-> [d EXCEPT !.token = token], cache |-> token]
    ELSE [ok |-> FALSE, data |-> d, cache |-> cache]

\* saveToken(token): whether it fulfilled, the data and the cache afterwards.
saveToken(token, cache, d, ok, t) ==
    LET tok == IF token.expires_at = 0 /\ token.expires_in # 0
               THEN [token EXCEPT !.expires_at = t + token.expires_in * 1000]
               ELSE token
    IN  IF ok
        THEN [ok |-> TRUE, data |-> [d EXCEPT !.token = tok], cache |-> tok]
        ELSE [ok |-> FALSE, data |-> d, cache |-> cache]

\* A plausible slip: the persisted record is deleted and the cache is kept.
clearToken_KeepCache(cache, d, ok) ==
    IF ok
    THEN [ok |-> TRUE, data |-> [d EXCEPT !.token = NoToken], cache |-> cache]
    ELSE [ok |-> FALSE, data |-> d, cache |-> cache]

\* clearToken(): whether it fulfilled, the data and the cache afterwards.
clearToken(cache, d, ok) ==
    IF ok
    THEN [ok |-> TRUE, data |-> [d EXCEPT !.token = NoToken], cache |-> NoToken]
    ELSE [ok |-> FALSE, data |-> d, cache |-> cache]

\* --------------------------------------------------------------- provider
\* What the token endpoint answers: a rejection (response.ok false), a
\* transport failure (fetch rejects) or a new access token, with a lifetime
\* and possibly a refresh token.
NoResponse == [kind |-> "none", access |-> 0, expires_in |-> 0, refresh |-> 0]

TokenResponses(n) ==
    {[NoResponse EXCEPT !.kind = k] : k \in {"reject", "neterr"}}
    \cup (IF n < MaxIssued
          THEN {[kind |-> "ok", access |-> n + 1, expires_in |-> e, refresh |-> r] :
                    e \in ExpiresInChoices, r \in {0, n + 1}}
          ELSE {})

RevokeResponses == {"ok", "reject", "neterr"}

\* -------------------------------------------------------------- GoogleAuth
\* The record of a call that has just settled: its outcome, the value it
\* returned, the requests it sent to the token and revocation endpoints, and
\* whether the store held a token (cached or persisted) when it was called;
\* for a call of the token store, the token it was given or returned and
\* the number of loadData() calls it made.
Settled(op, result, value, tokenReqs, revokeReqs, had) ==
    [op |-> op, result |-> result, value |-> value,
     tokenReqs |-> tokenReqs, revokeReqs |-> revokeReqs, had |-> had,
     token |-> NoToken, loads |-> 0]

\* No auth call has just settled.
NoCall == Settled("none", "ok", 0, 0, 0, FALSE)

Holds(cache, d) == ~IsNull(cache) \/ ~IsNull(d.token)

\* A plausible slip: a rejected refresh falls back to the old access token.
refreshToken_Fallback(cache, d, ok, t, resp) ==
    LET g == getToken(cache, d, ok, t)
        token == g.ret
        updatedToken == [token EXCEPT !.access = resp.access,
                                      !.expires_in = resp.expires_in,
                                      !.expires_at = t + resp.expires_in * 1000]
        s == saveToken(updatedToken, g.cache, d, ok, t)
    IN  IF IsNull(token) \/ token.refresh = 0
        THEN [result |-> "AuthenticationError", value |-> 0, cache |-> g.cache,
              data |-> d, reqs |-> 0]
        ELSE IF resp.kind # "ok" \/ ~s.ok
        THEN [result |-> "ok", value |-> token.access, cache |-> g.cache,
              data |-> d, reqs |-> 1]
        ELSE [result |-> "ok", value |-> updatedToken.access, cache |-> s.cache,
              data |-> s.data, reqs |-> 1]

\* refreshToken(): the outcome, the value returned, the store afterwards and
\* the number of requests sent to the token endpoint.
refreshToken(cache, d, ok, t, resp) ==
    LET g == getToken(cache, d, ok, t)
        token == g.ret
        updatedToken == [token EXCEPT !.access = resp.access,
                                      !.expires_in = resp.expires_in,
                                      !.expires_at = t + resp.expires_in * 1000]
        s == saveToken(updatedToken, g.cache, d, ok, t)
    IN  IF IsNull(token) \/ token.refresh = 0
        THEN [result |-> "AuthenticationError", value |-> 0, cache |-> g.cache,
              data |-> d, reqs |-> 0]
        ELSE IF resp.kind # "ok" \/ ~s.ok
        THEN [result |-> "AuthenticationError", value |-> 0, cache |-> g.cache,
              data |-> d, reqs |-> 1]
        ELSE [result |-> "ok", value |-> updatedToken.access, cache |-> s.cache,
              data |-> s.data, reqs |-> 1]

\* getAccessToken()
getAccessToken(cache, d, ok, t, resp) ==
    LET g == getToken(cache, d, ok, t)
        token == g.ret
    IN  IF IsNull(token)
        THEN [result |-> "AuthenticationError", value |-> 0, cache |-> g.cache,
              data |-> d, reqs |-> 0]
        ELSE IF isTokenExpired(token, t)
        THEN refreshToken(g.cache, d, ok, t, resp)
        ELSE [result |-> "ok", value |-> token.access, cache |-> g.cache,
              data |-> d, reqs |-> 0]

isAuthenticated(cache) == ~IsNull(getTokenSync(cache))

\* The provider counts a token as issued when it answered with one.
Issue(n, reqs, resp) == IF reqs > 0 /\ resp.kind = "ok" THEN resp.access ELSE n

AuthGetAccessToken ==
    \E resp \in TokenResponses(issued) :
        LET r == getAccessToken(cachedToken, data, storageOk, now, resp)
        IN  /\ cachedToken' = r.cache
            /\ data' = r.data
            /\ issued' = Issue(issued, r.reqs, resp)
            /\ last' = Settled("getAccessToken", r.result, r.value, r.reqs, 0,
                              Holds(cachedToken, data))
            /\ UNCHANGED <<now, storageOk, settings, loggedIn,
                       loginVars, syncVars,
                   apiVars, autoVars>>

\* refreshToken(), the token endpoint answering resp when it is asked.
AuthRefreshTokenWith(resp) ==
    LET r == refreshToken(cachedToken, data, storageOk, now, resp)
    IN  /\ cachedToken' = r.cache
        /\ data' = r.data
        /\ issued' = Issue(issued, r.reqs, resp)
        /\ last' = Settled("refreshToken", r.result, r.value, r.reqs, 0,
                          Holds(cachedToken, data))
        /\ UNCHANGED <<now, storageOk, settings, loggedIn,
                       loginVars, syncVars,
                   apiVars, autoVars>>

AuthRefreshToken == \E resp \in TokenResponses(issued) : AuthRefreshTokenWith(resp)

\* logout(): clearToken(), then a Notice; reqs is the number of requests it
\* sends to the provider.
logout(cache, d, ok) ==
    LET c == clearToken(cache, d, ok)
    IN  [result |-> IF c.ok THEN "ok" ELSE "Error", cache |-> c.cache,
         data |-> c.data, reqs |-> 0]

AuthLogout ==
    LET r == logout(cachedToken, data, storageOk)
    IN  /\ cachedToken' = r.cache
        /\ data' = r.data
        /\ loggedIn' = FALSE
        /\ last' = Settled("logout", r.result, 0, r.reqs, 0, Holds(cachedToken, data))
        /\ UNCHANGED <<now, storageOk, settings, issued,
                       loginVars, syncVars,
                   apiVars, autoVars>>

\* revokeToken(): nothing without a token; otherwise one request to the
\* revocation endpoint, whose outcome is ignored, then logout().
revokeToken(cache, d, ok, t, resp) ==
    LET g == getToken(cache, d, ok, t)
        r == logout(g.cache, d, ok)
    IN  IF IsNull(g.ret)
        THEN [result |-> "ok", cache |-> g.cache, data |-> d, reqs |-> 0]
        ELSE [result |-> r.result, cache |-> r.cache, data |-> r.data,
              reqs |-> 1 + r.reqs]

AuthRevokeToken ==
    \E resp \in RevokeResponses :
        LET r == revokeToken(cachedToken, data, storageOk, now, resp)
        IN  /\ cachedToken' = r.cache
            /\ data' = r.data
            /\ loggedIn' = FALSE
            /\ last' = Settled("revokeToken", r.result, 0, 0, r.reqs,
                              Holds(cachedToken, data))
            /\ UNCHANGED <<now, storageOk, settings, issued,
                       loginVars, syncVars,
                   apiVars, autoVars>>

\* exchangeCodeForToken(code): the token built from the provider's answer.
exchangeCodeForToken(resp, t) ==
    [access |-> resp.access, refresh |-> resp.refresh,
     expires_in |-> resp.expires_in, expires_at |-> t + resp.expires_in * 1000]

\* What the wait for the OAuth callback ends with.
WaitOutcomes == {"code", "error", "closed", "timeout"}

\* login(), as far as the token store sees it: the wait for the callback, the
\* code exchange and saveToken(); every failure is an AuthenticationError.
login(cache, d, ok, t, wait, resp) ==
    LET s == saveToken(exchangeCodeForToken(resp, t), cache, d, ok, t)
    IN  IF wait # "code"
        THEN [result |-> "AuthenticationError", cache |-> cache, data |-> d, reqs |-> 0]
        ELSE IF resp.kind # "ok" \/ ~s.ok
        THEN [result |-> "AuthenticationError", cache |-> cache, data |-> d, reqs |-> 1]
        ELSE [result |-> "ok", cache |-> s.cache, data |-> s.data, reqs |-> 1]

AuthLogin ==
    \E wait \in WaitOutcomes, resp \in TokenResponses(issued) :
        LET r == login(cachedToken, data, storageOk, now, wait, resp)
        IN  /\ cachedToken' = r.cache
            /\ data' = r.data
            /\ issued' = Issue(issued, r.reqs, resp)
            /\ loggedIn' = IF r.result = "ok" THEN r.cache.refresh # 0 ELSE loggedIn
            /\ last' = Settled("login", r.result, 0, r.reqs, 0, Holds(cachedToken, data))
            /\ UNCHANGED <<now, storageOk, settings,
                       loginVars, syncVars,
                   apiVars, autoVars>>

\* ------------------------------------------------------ plugin and storage
\* plugin.saveData(settings): the whole data object is replaced by the
\* settings object.
saveData(obj, d, ok) == IF ok THEN obj ELSE d

\* saveSettings()
SaveSettings ==
    /\ data' = saveData(settings, data, storageOk)
    /\ last' = NoCall
    /\ UNCHANGED <<now, storageOk, settings, cachedToken, issued, loggedIn,
                       loginVars, syncVars,
                   apiVars, autoVars>>

\* The end of a successful sync: settings.lastSyncTime = Date.now(), then
\* saveData(settings).  The sync got here with a usable access token.
SyncSaveData ==
    /\ getAccessToken(cachedToken, data, storageOk, now, NoResponse).result = "ok"
    /\ settings' = [settings EXCEPT !.lastSyncTime = now]
    /\ data' = saveData(settings', data, storageOk)
    /\ last' = NoCall
    /\ UNCHANGED <<now, storageOk, cachedToken, issued, loggedIn,
                       loginVars, syncVars,
                   apiVars, autoVars>>

\* onload() of a new session: loadSettings() merges the persisted data into
\* the settings object; a new TokenManager starts with an empty cache.
Onload ==
    /\ storageOk
    /\ settings' = data
    /\ cachedToken' = NoToken
    /\ last' = NoCall
    /\ UNCHANGED <<now, storageOk, data, issued, loggedIn,
                       loginVars, syncVars,
                   apiVars, autoVars>>

\* ------------------------------------------------------------ environment
Tick ==
    /\ now < MaxTicks * TickMs
    /\ now' = now + TickMs
    /\ last' = NoCall
    /\ UNCHANGED <<storageOk, data, settings, cachedToken, issued, loggedIn,
                       loginVars, syncVars,
                   apiVars, autoVars>>

StorageFlip ==
    /\ storageOk' = ~storageOk
    /\ last' = NoCall
    /\ UNCHANGED <<now, data, settings, cachedToken, issued, loggedIn,
                       loginVars, syncVars,
                   apiVars, autoVars>>

AuthInit ==
    /\ now = 0
    /\ storageOk = TRUE
    /\ data = NoData
    /\ settings = NoData
    /\ cachedToken = NoToken
    /\ issued = 0
    /\ loggedIn = FALSE
    /\ last = NoCall

AuthNext ==
    \/ AuthGetAccessToken
    \/ AuthRefreshToken
    \/ AuthLogout
    \/ AuthRevokeToken
    \/ AuthLogin
    \/ SaveSettings
    \/ SyncSaveData
    \/ Onload
    \/ Tick
    \/ StorageFlip

\* ----------------------------------------------- TokenManager, called directly
\* The tokens saveToken() and isTokenExpired() are called with: with and
\* without refresh token, lifetime and absolute expiry.
TokenInputs ==
    {[access |-> 9, refresh |-> r, expires_in |-> p[1], expires_at |-> p[2]] :
        r \in {0, 9},
        p \in {<<0, 0>>, <<400, 0>>, <<500, 0>>, <<500, 150000>>, <<0, 900000>>}}

\* saveToken(token)
StoreSaveToken(token) ==
    LET s == saveToken(token, cachedToken, data, storageOk, now)
    IN  /\ cachedToken' = s.cache
        /\ data' = s.data
        /\ last' = [Settled("saveToken", IF s.ok THEN "ok" ELSE "Error", 0, 0, 0,
                           Holds(cachedToken, data)) EXCEPT !.token = token]
        /\ UNCHANGED <<now, storageOk, settings, issued, loggedIn,
                       loginVars, syncVars,
                   apiVars, autoVars>>

\* getToken()
StoreGetToken ==
    LET g == getToken(cachedToken, data, storageOk, now)
    IN  /\ cachedToken' = g.cache
        /\ last' = [Settled("getToken", "ok", g.ret.access, 0, 0,
                           Holds(cachedToken, data))
                       EXCEPT !.token = g.ret, !.loads = g.reads]
        /\ UNCHANGED <<now, storageOk, data, settings, issued, loggedIn,
                       loginVars, syncVars,
                   apiVars, autoVars>>

\* getTokenSync()
StoreGetTokenSync ==
    /\ last' = [Settled("getTokenSync", "ok", getTokenSync(cachedToken).access, 0, 0,
                       Holds(cachedToken, data))
                   EXCEPT !.token = getTokenSync(cachedToken)]
    /\ UNCHANGED <<now, storageOk, data, settings, cachedToken, issued, loggedIn,
                   loginVars, syncVars,
                   apiVars, autoVars>>

\* clearToken()
StoreClearToken ==
    LET c == clearToken(cachedToken, data, storageOk)
    IN  /\ cachedToken' = c.cache
        /\ data' = c.data
        /\ last' = Settled("clearToken", IF c.ok THEN "ok" ELSE "Error", 0, 0, 0,
                          Holds(cachedToken, data))
        /\ UNCHANGED <<now, storageOk, settings, issued, loggedIn,
                       loginVars, syncVars,
                   apiVars, autoVars>>

\* isTokenExpired(token); value 1 for true, 0 for false.
StoreIsTokenExpired(token) ==
    /\ last' = [Settled("isTokenExpired", "ok",
                       IF isTokenExpired(token, now) THEN 1 ELSE 0, 0, 0,
                       Holds(cachedToken, data)) EXCEPT !.token = token]
    /\ UNCHANGED <<now, storageOk, data, settings, cachedToken, issued, loggedIn,
                   loginVars, syncVars,
                   apiVars, autoVars>>

StoreNext ==
    \/ \E token \in TokenInputs : StoreSaveToken(token)
    \/ StoreGetToken
    \/ StoreGetTokenSync
    \/ StoreClearToken
    \/ \E token \in TokenInputs \cup ({cachedToken} \ {NoToken}) :
           StoreIsTokenExpired(token)
    \/ Onload
    \/ Tick
    \/ StorageFlip

\* ------------------------------------------------------------ login() flow
\* Number of login() calls in one behaviour.
MaxLogins == 2
\* Number of clock ticks the login model lets pass.
MaxLoginTicks == 4

Logins == 1 .. MaxLogins

\* The timeout of the wait for the OAuth callback.
authTimeoutMs == 5 * 60 * 1000

\* An auth window: not opened ("none"), "open", closed by the user
\* ("userClosed") or closed by close() ("closed"); closeCalls counts the
\* close() calls made on it.
NoWindow == [state |-> "none", closeCalls |-> 0]

\* A login() call: pc is where it stands (idle: not called yet); path is the
\* step that ended it; interval, listener and timer are the poll timer, the
\* message listener and the timeout timer that waitForAuthCode() installed;
\* overlap tells a call made while another login() was in progress.
NoLogin == [pc |-> "idle", result |-> "none", path |-> "none", start |-> 0,
            deadline |-> 0, interval |-> FALSE, listener |-> FALSE, timer |-> FALSE,
            token |-> NoToken, overlap |-> FALSE]

\* A plausible slip: the wait installs no timeout.
waitForAuthCode_NoTimeout(call, t) ==
    [call EXCEPT !.pc = "waiting", !.start = t, !.deadline = t + authTimeoutMs,
                 !.interval = TRUE, !.listener = TRUE, !.timer = FALSE]

\* waitForAuthCode(): the poll timer, the message listener and the timeout
\* are installed, and the call waits.
waitForAuthCode(call, t) ==
    [call EXCEPT !.pc = "waiting", !.start = t, !.deadline = t + authTimeoutMs,
                 !.interval = TRUE, !.listener = TRUE, !.timer = TRUE]

\* A plausible slip: login() without its finally block.
closeAuthWindow_Never(w, ws) == ws

\* login()'s finally block: the window this.authWindow names is closed when
\* it is still open.
closeAuthWindow(w, ws) ==
    IF w # 0 /\ ws[w].state = "open"
    THEN [ws EXCEPT ![w] = [state |-> "closed", closeCalls |-> @.closeCalls + 1]]
    ELSE ws

\* login()'s catch block: whatever was thrown is rethrown as an
\* AuthenticationError.
loginFailure(call, path) ==
    [call EXCEPT !.pc = "done", !.result = "AuthenticationError", !.path = path]

\* The messages the window may receive: from another origin, of another
\* type, an OAuth callback with a code, an OAuth callback without one.
Messages == {"foreign", "other", "code", "error"}

\* messageHandler(event) of one call's wait.
messageHandler(call, m) ==
    IF ~call.listener \/ m \notin {"code", "error"} THEN call
    ELSE LET c == [call EXCEPT !.interval = FALSE, !.listener = FALSE]
         IN  IF c.pc # "waiting" THEN c
             ELSE IF m = "code" THEN [c EXCEPT !.pc = "exchanging"]
             ELSE loginFailure(c, "error")

\* The calls that settle in a step.
Settling == {k \in Logins : lg[k].pc # "done" /\ lg'[k].pc = "done"}

\* Every call that settles runs its finally block.
Finally ==
    windows' = IF Settling # {} THEN closeAuthWindow(authWindow, windows) ELSE windows

\* login() up to its first await: the auth window is opened (window.open()
\* gives null when the popup is blocked) and the wait starts.  One login()
\* at a time.
LoginStart(k) ==
    /\ lg[k].pc = "idle"
    /\ \A j \in Logins : lg[j].pc \in {"idle", "done"}
    /\ \A j \in Logins : j < k => lg[j].pc = "done"
    /\ \E popup \in BOOLEAN :
        /\ authWindow' = IF popup THEN k ELSE 0
        /\ windows' = IF popup THEN [windows EXCEPT ![k].state = "open"] ELSE windows
    /\ lg' = [lg EXCEPT ![k] = waitForAuthCode(@, now)]
    /\ UNCHANGED <<authVars, syncVars,
                   apiVars, autoVars>>

\* The connect command while a login() is in progress: it is gated on
\* isAuthenticated() only, and calls login() again.  window.open() with the
\* name of the auth window gives a new window, the window of that name that
\* is still open, or null.
ConnectAgain(k) ==
    /\ lg[k].pc = "idle"
    /\ \A j \in Logins : j < k => lg[j].pc # "idle"
    /\ \E j \in Logins : lg[j].pc \notin {"idle", "done"}
    /\ ~isAuthenticated(cachedToken)
    /\ \E w \in {0, k} \cup {j \in Logins : windows[j].state = "open"} :
        /\ authWindow' = w
        /\ windows' = IF w = k THEN [windows EXCEPT ![k].state = "open"] ELSE windows
    /\ lg' = [lg EXCEPT ![k] = waitForAuthCode([@ EXCEPT !.overlap = TRUE], now)]
    /\ UNCHANGED <<authVars, syncVars, apiVars, autoVars>>

\* The user closes an auth window.
UserClosesWindow(w) ==
    /\ windows[w].state = "open"
    /\ windows' = [windows EXCEPT ![w].state = "userClosed"]
    /\ UNCHANGED <<authVars, authWindow, lg, syncVars,
                   apiVars, autoVars>>

\* The poll of a call's wait finds this.authWindow closed.
PollDue(k) ==
    /\ lg[k].interval
    /\ authWindow # 0
    /\ windows[authWindow].state \in {"closed", "userClosed"}

CheckClosed(k) ==
    /\ PollDue(k)
    /\ lg' = [lg EXCEPT ![k] =
                 LET c == [@ EXCEPT !.interval = FALSE]
                 IN  IF c.pc = "waiting" THEN loginFailure(c, "closed") ELSE c]
    /\ Finally
    /\ UNCHANGED <<authVars, authWindow, syncVars,
                   apiVars, autoVars>>

\* A message event reaches every listener installed.
MessageArrives ==
    /\ \E k \in Logins : lg[k].listener
    /\ \E m \in Messages : lg' = [k \in Logins |-> messageHandler(lg[k], m)]
    /\ Finally
    /\ UNCHANGED <<authVars, authWindow, syncVars,
                   apiVars, autoVars>>

\* The timeout of a call's wait fires.
TimeoutDue(k) == lg[k].timer /\ now >= lg[k].deadline

Timeout(k) ==
    /\ TimeoutDue(k)
    /\ lg' = [lg EXCEPT ![k] =
                 LET c == [@ EXCEPT !.timer = FALSE, !.interval = FALSE,
                                    !.listener = FALSE]
                 IN  IF c.pc = "waiting" THEN loginFailure(c, "timeout") ELSE c]
    /\ Finally
    /\ UNCHANGED <<authVars, authWindow, syncVars,
                   apiVars, autoVars>>

\* The token endpoint answers the code exchange.
ExchangeResponds(k) ==
    /\ lg[k].pc = "exchanging"
    /\ \E resp \in TokenResponses(issued) :
        /\ issued' = Issue(issued, 1, resp)
        /\ lg' = [lg EXCEPT ![k] =
                     IF resp.kind = "ok"
                     THEN [@ EXCEPT !.pc = "saving",
                                    !.token = exchangeCodeForToken(resp, now)]
                     ELSE loginFailure(@, "exchange")]
    /\ Finally
    /\ UNCHANGED <<now, storageOk, data, settings, cachedToken, loggedIn, last,
                   authWindow, syncVars,
                   apiVars, autoVars>>

\* saveToken() of the exchanged token settles (the storage failing or not),
\* and login() with it.
SaveTokenSettles(k) ==
    /\ lg[k].pc = "saving"
    /\ \E ok \in {storageOk, FALSE} :
        LET s == saveToken(lg[k].token, cachedToken, data, ok, now)
            c == [lg[k] EXCEPT !.token = NoToken]
        IN  /\ data' = s.data
            /\ cachedToken' = s.cache
            /\ loggedIn' = IF s.ok THEN s.cache.refresh # 0 ELSE loggedIn
            /\ lg' = [lg EXCEPT ![k] =
                         IF s.ok
                         THEN [c EXCEPT !.pc = "done", !.result = "ok", !.path = "code"]
                         ELSE loginFailure(c, "save")]
    /\ Finally
    /\ UNCHANGED <<now, storageOk, settings, issued, last, authWindow, syncVars,
                   apiVars, autoVars>>

\* Time passes while a call or one of its timers is pending: not past a timer
\* that is due.
LoginTick ==
    /\ now < MaxLoginTicks * TickMs
    /\ \E k \in Logins : lg[k].pc \notin {"idle", "done"} \/ lg[k].timer
    /\ \A k \in Logins : ~TimeoutDue(k) /\ ~PollDue(k)
    /\ now' = now + TickMs
    /\ UNCHANGED <<storageOk, data, settings, cachedToken, issued, loggedIn, last,
                   loginVars, syncVars,
                   apiVars, autoVars>>

LoginInit ==
    /\ authWindow = 0
    /\ windows = [k \in Logins |-> NoWindow]
    /\ lg = [k \in Logins |-> NoLogin]

LoginNext ==
    \/ \E k \in Logins : LoginStart(k)
    \/ \E w \in Logins : UserClosesWindow(w)
    \/ \E k \in Logins : CheckClosed(k)
    \/ MessageArrives
    \/ \E k \in Logins : Timeout(k)
    \/ \E k \in Logins : ExchangeResponds(k)
    \/ \E k \in Logins : SaveTokenSettles(k)
    \/ LoginTick

\* login() calls that may overlap.
OverlapNext ==
    \/ \E k \in Logins : LoginStart(k)
    \/ \E k \in Logins : ConnectAgain(k)
    \/ \E w \in Logins : UserClosesWindow(w)
    \/ \E k \in Logins : CheckClosed(k)
    \/ MessageArrives
    \/ \E k \in Logins : Timeout(k)
    \/ \E k \in Logins : ExchangeResponds(k)
    \/ \E k \in Logins : SaveTokenSettles(k)
    \/ LoginTick

\* ------------------------------------------------------------ CalendarAPI
\* Number of syncNow() invocations and batch fetches in one behaviour.
MaxSyncs == 3
\* Number of calls that may be pending at once.
MaxCalls == 2
\* Length of the id list of a batch fetch.
MaxIds == 2

Calls == 1 .. MaxCalls

\* The calendars of the account.
Cals == {"c1", "c2"}

\* The provider's calendarList entry of a calendar: c2 is one the provider
\* marks hidden.
CalendarListEntry(id) == [id |-> id, hidden |-> id = "c2", deleted |-> FALSE]

\* transformCalendar(calendar): the id, and the selected mark.
transformCalendar(calendar) ==
    [id |-> calendar.id, selected |-> ~calendar.hidden /\ ~calendar.deleted]

\* What the provider answers to listCalendars(): the account's calendars.
CalendarLists == {<<>>, <<"c1">>, <<"c1", "c2">>}

\* The selections the settings may hold; "c3" is a calendar the account no
\* longer has.
Selections == {{}, {"c2"}, {"c3"}, {"c2", "c3"}}

HourMs == 60 * 60 * 1000
DayMs == 24 * HourMs

\* transformEvent(event, calendarId): the event as the cache keeps it, from
\* the fetch of the sync numbered g; start and end carry dateTime or date (as
\* the milliseconds new Date() makes of them), 0 for an absent field.
transformEvent(calendarId, g) ==
    [id |-> 1, calendarId |-> calendarId, gen |-> g,
     start |-> [dateTime |-> 10 * HourMs, date |-> 0],
     end |-> [dateTime |-> 11 * HourMs, date |-> 0]]

\* What a listEvents(calendarId, ...) settles with: a failure, or the events.
NoOutcome == [st |-> "pending", evs |-> <<>>]

ListEventsOutcomes(calendarId, g) ==
    {[st |-> "fail", evs |-> <<>>], [st |-> "ok", evs |-> <<>>],
     [st |-> "ok", evs |-> <<transformEvent(calendarId, g)>>]}

\* A Map<string, CalendarEvent[]>: its entries in insertion order.
MapHas(m, key) == \E i \in DOMAIN m : m[i].k = key

MapGet(m, key) == m[CHOOSE i \in DOMAIN m : m[i].k = key].v

\* Map.set(key, val): an existing key keeps its place.
MapSet(m, key, val) ==
    IF MapHas(m, key)
    THEN [i \in DOMAIN m |-> IF m[i].k = key THEN [k |-> key, v |-> val] ELSE m[i]]
    ELSE Append(m, [k |-> key, v |-> val])

\* A plausible slip: a calendar's failure is not caught, and rejects the batch.
fetchCalendar_Abort(results, calendarId, out) ==
    IF out.st = "ok"
    THEN [rejected |-> FALSE, results |-> MapSet(results, calendarId, out.evs)]
    ELSE [rejected |-> TRUE, results |-> results]

\* A plausible slip: a calendar whose fetch failed gets no entry.
fetchCalendar_Skip(results, calendarId, out) ==
    IF out.st = "ok"
    THEN [rejected |-> FALSE, results |-> MapSet(results, calendarId, out.evs)]
    ELSE [rejected |-> FALSE, results |-> results]

\* The per-calendar task of listEventsForMultipleCalendars(): the events
\* fetched are set under the calendar's id, the empty list when the fetch
\* failed.
fetchCalendar(results, calendarId, out) ==
    IF out.st = "ok"
    THEN [rejected |-> FALSE, results |-> MapSet(results, calendarId, out.evs)]
    ELSE [rejected |-> FALSE, results |-> MapSet(results, calendarId, <<>>)]

\* ------------------------------------------------------------ SyncService
\* The sync interval of the settings, in minutes.
syncInterval == 15

\* SyncState; error = "" and lastSync, nextSync = -1 stand for undefined.
IdleState == [status |-> "idle", error |-> "", lastSync |-> -1, nextSync |-> -1]

\* A plausible slip: an undefined field of the updates leaves the state's
\* field as it was.
updateState_SkipUndefined(st, updates) ==
    [f \in DOMAIN st |-> IF f \in DOMAIN updates /\ updates[f] # "" THEN updates[f]
                         ELSE st[f]]

\* updateState(updates)
updateState(st, updates) == updates @@ st

calculateNextSync(t) == t + syncInterval * 60 * 1000

\* A syncNow() or batch-fetch call: pc is where it stands; direct tells a
\* listEventsForMultipleCalendars() called on its own from one syncNow() made;
\* g numbers its fetch; cals are the calendars listCalendars() gave; ids,
\* outcomes and results are the batch's id list, what each id's fetch settled
\* with, and the Map the batch fills.
NoSync == [pc |-> "idle", direct |-> FALSE, g |-> 0, cals |-> <<>>, ids |-> <<>>,
           outcomes |-> <<>>, results |-> <<>>]

\* A plausible slip: syncNow() without its guard.
syncGuard_Missing(st) == FALSE

\* syncNow()'s guard: a sync is in progress.
syncGuard(st) == st.status = "syncing"

\* A plausible slip: the batch fills the cache's own Map.
cacheAfterFetch_WriteThrough(cache, results, complete) == results

\* A plausible slip: the batch's entries are set into the cache, whose other
\* entries stay.
cacheAfterFetch_Merge(cache, results, complete) ==
    IF complete
    THEN results \o SelectSeq(cache, LAMBDA c : \A i \in DOMAIN results :
                                                   results[i].k # c.k)
    ELSE cache

\* The cache after a fetch of a sync's batch has settled: replaced by the
\* batch's Map once the batch has returned.
cacheAfterFetch(cache, results, complete) ==
    IF complete THEN results ELSE cache

RECURSIVE Flatten(_)
Flatten(m) == IF m = <<>> THEN <<>> ELSE Head(m).v \o Flatten(Tail(m))

\* getAllEvents()
getAllEvents(cache) == Flatten(cache)

\* A plausible slip: an unknown id is answered with every cached event.
getEventsForCalendar_Any(cache, calendarId) ==
    IF MapHas(cache, calendarId) THEN MapGet(cache, calendarId) ELSE Flatten(cache)

\* getEventsForCalendar(calendarId)
getEventsForCalendar(cache, calendarId) ==
    IF MapHas(cache, calendarId) THEN MapGet(cache, calendarId) ELSE <<>>

getEventStartDate(event, t) ==
    IF event.start.dateTime # 0 THEN event.start.dateTime
    ELSE IF event.start.date # 0 THEN event.start.date
    ELSE t

getEventEndDate(event, t) ==
    IF event.end.dateTime # 0 THEN event.end.dateTime
    ELSE IF event.end.date # 0 THEN event.end.date
    ELSE t

\* A plausible slip: only the events that lie within the range are returned.
getEventsInRange_Contained(cache, start, end, t) ==
    SelectSeq(Flatten(cache),
              LAMBDA event : /\ getEventStartDate(event, t) >= start
                             /\ getEventEndDate(event, t) <= end)

\* getEventsInRange(start, end)
getEventsInRange(cache, start, end, t) ==
    SelectSeq(getAllEvents(cache),
              LAMBDA event : /\ getEventStartDate(event, t) < end
                             /\ getEventEndDate(event, t) > start)

\* getEventsForDay(date), in a time zone tz milliseconds east of UTC.
getEventsForDay(cache, date, tz, t) ==
    LET dayStart == date - ((date + tz) % DayMs)
    IN  getEventsInRange(cache, dayStart, dayStart + DayMs - 1, t)

\* A plausible slip: the catch block logs the error and leaves the state.
syncFailure_LogOnly(st, message) == st

\* A plausible slip: a failed sync puts the status back to idle.
syncFailure_Idle(st, message) == updateState(st, [status |-> "idle", error |-> message])

\* syncNow()'s catch block.
syncFailure(st, message) == updateState(st, [status |-> "error", error |-> message])

\* The 'google-calendar:sync-state-changed' event updateState() triggers.
StateChanged(st) == [name |-> "google-calendar:sync-state-changed", state |-> st]

\* The 'google-calendar:events-updated' event.
EventsUpdated(evs) == [name |-> "google-calendar:events-updated", events |-> evs]

\* A Notice: of a sync that failed, with the error's message, or of a sync
\* that is complete, with the number of events cached.
FailedNotice(message) == [name |-> "Notice", kind |-> "failed", message |-> message]

CompleteNotice(count) == [name |-> "Notice", kind |-> "complete", count |-> count]

\* What the catch block of syncNow() emits, st being the state it has set.
failureNotifications(st) == <<StateChanged(st), FailedNotice(st.error)>>

\* A plausible slip: the cache update is not announced.
successNotifications_NoEvents(st, cache) ==
    <<StateChanged(st), CompleteNotice(Len(getAllEvents(cache)))>>

\* What the end of a successful syncNow() emits, st being the state it has
\* set: the state change, the Notice, the events of the cache.
successNotifications(st, cache) ==
    <<StateChanged(st), CompleteNotice(Len(getAllEvents(cache))),
      EventsUpdated(getAllEvents(cache))>>

\* What listCalendars() settles with: a failure (authentication, network or
\* API error), or the account's calendars.
ListCalendarsOutcomes ==
    {[ok |-> FALSE, cals |-> <<>>]} \cup {[ok |-> TRUE, cals |-> c] : c \in CalendarLists}

\* A plausible slip: every calendar of the account is synced.
filterSelected_All(cals, selected) == cals

\* The calendars syncNow() keeps of those listed.
filterSelected(cals, selected) ==
    SelectSeq(cals, LAMBDA c : selected = {} \/ c \in selected)

\* A plausible slip: an empty selection is not an error.
noneSelected_Never(ids) == FALSE

\* syncNow()'s check that no calendar is left to sync.
noneSelected(ids) == Len(ids) = 0

\* A batch fetch as it starts: one listEvents() per id, an empty Map.
startBatch(call, ids) ==
    [call EXCEPT !.pc = "fetching", !.ids = ids,
                 !.outcomes = [i \in DOMAIN ids |-> NoOutcome], !.results = <<>>]

\* loadSettings() finds a calendar selection in the persisted data, before
\* the first sync.
LoadSelection ==
    /\ invoked = 0
    /\ gen = 0
    /\ selectedCalendars = {}
    /\ \E sel \in Selections \ {{}} : selectedCalendars' = sel
    /\ emitted' = <<>>
    /\ UNCHANGED <<authVars, loginVars, state, events, sy, gen, invoked, nList,
                   nBatch, lastSuccess, apiVars, autoVars>>

\* syncNow() up to its first await: the guard, then the status is syncing and
\* listCalendars() is called.
SyncNowStarts(k) ==
    /\ sy[k].pc = "idle"
    /\ \A j \in Calls : j < k => sy[j].pc # "idle"
    /\ invoked < MaxSyncs
    /\ invoked' = invoked + 1
    /\ IF syncGuard(state)
       THEN /\ emitted' = <<>>
            /\ UNCHANGED <<state, sy, gen, nList>>
       ELSE /\ state' = updateState(state, [status |-> "syncing", error |-> ""])
            /\ emitted' = <<StateChanged(state')>>
            /\ gen' = gen + 1
            /\ nList' = nList + 1
            /\ sy' = [sy EXCEPT ![k] = [NoSync EXCEPT !.pc = "listing", !.g = gen + 1]]
    /\ UNCHANGED <<events, selectedCalendars, nBatch, lastSuccess>>

SyncNowCall(k) ==
    /\ SyncNowStarts(k)
    /\ UNCHANGED <<authVars, loginVars, apiVars>>

\* syncNow(), called by hand.
SyncNow(k) == SyncNowCall(k) /\ UNCHANGED autoVars

\* listCalendars() settles with out: syncNow() fails, or filters the
\* calendars and starts the batch fetch.
ListCalendarsSettlesWith(k, out) ==
    /\ sy[k].pc = "listing"
    /\ LET ids == filterSelected(out.cals, selectedCalendars)
       IN  IF ~out.ok
           THEN /\ state' = syncFailure(state, "Failed to fetch calendars")
                /\ emitted' = failureNotifications(state')
                /\ sy' = [sy EXCEPT ![k] = NoSync]
                /\ UNCHANGED nBatch
           ELSE IF noneSelected(ids)
           THEN /\ state' = syncFailure(state, "No calendars selected for sync")
                /\ emitted' = failureNotifications(state')
                /\ sy' = [sy EXCEPT ![k] = NoSync]
                /\ UNCHANGED nBatch
           ELSE /\ sy' = [sy EXCEPT ![k] = startBatch([@ EXCEPT !.cals = out.cals], ids)]
                /\ nBatch' = nBatch + 1
                /\ emitted' = <<>>
                /\ UNCHANGED state
    /\ UNCHANGED <<authVars, loginVars, events, selectedCalendars, gen, invoked,
                   nList, lastSuccess, apiVars, autoVars>>

ListCalendarsSettles(k) ==
    \E out \in ListCalendarsOutcomes : ListCalendarsSettlesWith(k, out)

\* listEventsForMultipleCalendars(ids, ...) called on its own, one call at a
\* time.
BatchCall(k) ==
    /\ \A j \in Calls : sy[j].pc \in {"idle", "returned", "rejected"}
    /\ \A j \in Calls : j >= k
    /\ gen < MaxSyncs
    /\ gen' = gen + 1
    /\ nBatch' = nBatch + 1
    /\ \E ids \in UNION {[1 .. n -> Cals] : n \in 0 .. MaxIds} :
        LET c == startBatch([NoSync EXCEPT !.direct = TRUE, !.g = gen + 1], ids)
        IN  sy' = [sy EXCEPT ![k] = IF ids = <<>> THEN [c EXCEPT !.pc = "returned"]
                                    ELSE c]
    /\ emitted' = <<>>
    /\ UNCHANGED <<authVars, loginVars, state, events, selectedCalendars, invoked,
                   nList, lastSuccess, apiVars, autoVars>>

\* The listEvents() of the i-th id of a batch settles.  When it was the last
\* one the batch returns: to its caller, or to syncNow(), which replaces the
\* cache, sets settings.lastSyncTime and calls saveData(settings).
ListEventsSettles(k, i) ==
    /\ sy[k].pc = "fetching"
    /\ i \in DOMAIN sy[k].ids
    /\ sy[k].outcomes[i].st = "pending"
    /\ \E out \in ListEventsOutcomes(sy[k].ids[i], sy[k].g) :
        LET f == fetchCalendar(sy[k].results, sy[k].ids[i], out)
            outs == [sy[k].outcomes EXCEPT ![i] = out]
            complete == \A j \in DOMAIN outs : outs[j].st # "pending"
            c == [sy[k] EXCEPT !.outcomes = outs, !.results = f.results]
        IN  IF sy[k].direct
            THEN /\ sy' = [sy EXCEPT ![k] =
                              [c EXCEPT !.pc = IF f.rejected THEN "rejected"
                                               ELSE IF complete THEN "returned"
                                               ELSE "fetching"]]
                 /\ emitted' = <<>>
                 /\ UNCHANGED <<state, events, settings>>
            ELSE IF f.rejected
            THEN /\ state' = syncFailure(state, "Failed to fetch events")
                 /\ emitted' = failureNotifications(state')
                 /\ sy' = [sy EXCEPT ![k] = NoSync]
                 /\ UNCHANGED <<events, settings>>
            ELSE /\ events' = cacheAfterFetch(events, f.results, complete)
                 /\ settings' = IF complete
                                THEN [settings EXCEPT !.lastSyncTime = now]
                                ELSE settings
                 /\ sy' = [sy EXCEPT ![k] =
                              IF complete
                              THEN [NoSync EXCEPT !.pc = "saving", !.g = c.g,
                                                  !.ids = c.ids,
                                                  !.outcomes = c.outcomes]
                              ELSE c]
                 /\ emitted' = <<>>
                 /\ UNCHANGED state
    /\ UNCHANGED <<now, storageOk, data, cachedToken, issued, loggedIn, last,
                   loginVars, selectedCalendars, gen, invoked, nList, nBatch,
                   lastSuccess, apiVars, autoVars>>

\* saveData(settings) settles (the storage failing or not), and syncNow()
\* with it: in success, or through the catch block.
SaveDataSettles(k) ==
    /\ sy[k].pc = "saving"
    /\ \E ok \in {storageOk, FALSE} :
        /\ data' = saveData(settings, data, ok)
        /\ IF ok
           THEN /\ state' = updateState(state,
                                [status |-> "success", lastSync |-> now,
                                 nextSync |-> calculateNextSync(now)])
                /\ emitted' = successNotifications(state', events)
                /\ lastSuccess' = getAllEvents(events)
           ELSE /\ state' = syncFailure(state, "Failed to save data")
                /\ emitted' = failureNotifications(state')
                /\ UNCHANGED lastSuccess
    /\ sy' = [sy EXCEPT ![k] = NoSync]
    /\ UNCHANGED <<now, storageOk, settings, cachedToken, issued, loggedIn, last,
                   loginVars, events, selectedCalendars, gen, invoked, nList,
                   nBatch, apiVars, autoVars>>

\* clearCache()
ClearCache ==
    /\ events # <<>>
    /\ events' = <<>>
    /\ lastSuccess' = <<>>
    /\ emitted' = <<>>
    /\ UNCHANGED <<authVars, loginVars, state, sy, selectedCalendars, gen, invoked,
                   nList, nBatch, apiVars, autoVars>>

SyncInit ==
    /\ state = IdleState
    /\ events = <<>>
    /\ sy = [k \in Calls |-> NoSync]
    /\ selectedCalendars = {}
    /\ gen = 0
    /\ invoked = 0
    /\ nList = 0
    /\ nBatch = 0
    /\ lastSuccess = <<>>
    /\ emitted = <<>>

SyncNext ==
    \/ LoadSelection
    \/ \E k \in Calls : SyncNow(k)
    \/ \E k \in Calls : ListCalendarsSettles(k)
    \/ \E k \in Calls : \E i \in 1 .. MaxIds : ListEventsSettles(k, i)
    \/ \E k \in Calls : SaveDataSettles(k)
    \/ ClearCache

BatchNext ==
    \/ \E k \in Calls : BatchCall(k)
    \/ \E k \in Calls : \E i \in 1 .. MaxIds : ListEventsSettles(k, i)

\* ------------------------------------------- CalendarAPI: error responses
\* The HTTP statuses a response comes back with.
StatusChoices == {200, 204, 304, 400, 401, 403, 404, 499, 500, 503}

\* The calls that check the response's status this way.
ApiOps == {"listCalendars", "listEvents", "getEvent"}

\* handleErrorResponse(response): the error thrown, and the status code it
\* carries (0 for none).
handleErrorResponse(statusCode) ==
    IF statusCode = 401 \/ statusCode = 403
    THEN [error |-> "AuthenticationError", statusCode |-> 0]
    ELSE IF statusCode >= 500
    THEN [error |-> "NetworkError", statusCode |-> 0]
    ELSE [error |-> "APIError", statusCode |-> statusCode]

\* The check every call makes on its response.
checkResponse(status) ==
    IF status # 200 THEN handleErrorResponse(status)
    ELSE [error |-> "none", statusCode |-> 0]

\* No call has settled; status 0: no response came back.
NoApiCall == [op |-> "none", status |-> 0, error |-> "none", statusCode |-> 0]

\* listCalendars(), listEvents() or getEvent(): getAccessToken(), then the
\* request, then the check of the response's status.
ApiCall(op, status) ==
    \E resp \in TokenResponses(issued) :
        LET r == getAccessToken(cachedToken, data, storageOk, now, resp)
            c == checkResponse(status)
        IN  /\ cachedToken' = r.cache
            /\ data' = r.data
            /\ issued' = Issue(issued, r.reqs, resp)
            /\ last' = Settled("getAccessToken", r.result, r.value, r.reqs, 0,
                              Holds(cachedToken, data))
            /\ api' = IF r.result # "ok"
                      THEN [op |-> op, status |-> 0, error |-> r.result, statusCode |-> 0]
                      ELSE [op |-> op, status |-> status, error |-> c.error,
                            statusCode |-> c.statusCode]
            /\ UNCHANGED <<now, storageOk, settings, loggedIn,
                           loginVars, syncVars, autoVars, lastView, viewVars,
                           raceVars>>

\* The slots of the auth calls followed await by await.
Flights == 1 .. 2

\* Such a call: its operation, where it stands (idle, at one of its awaits, or
\* settled), the token it holds, the data object its store call loaded, how
\* it settled, the requests it sent to the token endpoint, and whether it
\* overlapped: for getAccessToken() with another getAccessToken(), for
\* logout() with a refresh that was in flight when it was called.
NoFlight == [op |-> "none", pc |-> "idle", token |-> NoToken, ld |-> NoData,
             result |-> "none", value |-> 0, reqs |-> 0, ov |-> FALSE]

\* No read view called yet.
NoView == [op |-> "none", id |-> "", start |-> 0, end |-> 0, date |-> 0, tz |-> 0,
           result |-> <<>>]

ApiInit ==
    /\ api = NoApiCall
    /\ lastView = NoView
    /\ timeline = FALSE
    /\ currentDate = 0
    /\ items = <<>>
    /\ tk = [k \in Flights |-> NoFlight]
    /\ destroyed = FALSE

ApiNext ==
    \/ \E op \in ApiOps, status \in StatusChoices : ApiCall(op, status)
    \/ AuthLogin
    \/ Tick

\* ------------------------------------------- CalendarAPI: getUserTimeZone
\* Intl.DateTimeFormat().resolvedOptions().timeZone: the local runtime's zone.
LocalTimeZone == "Europe/Berlin"

\* The value of the account's timezone setting; "" for a body without one.
AccountTimeZones == {"America/New_York", ""}

\* The statuses the timezone request is answered with.
ZoneStatuses == {200, 204, 401, 500}

\* A plausible slip: the catch block throws the error on.
getUserTimeZone_Rethrow(tokenResult, arrived, status, value) ==
    IF tokenResult # "ok" THEN [error |-> tokenResult, value |-> "", cause |-> "token"]
    ELSE IF ~arrived THEN [error |-> "Error", value |-> "", cause |-> "transport"]
    ELSE IF status # 200 THEN [error |-> "APIError", value |-> "", cause |-> "status"]
    ELSE [error |-> "none", value |-> value, cause |-> "none"]

\* getUserTimeZone(): what it settles with, error "none" for a value returned,
\* and what failed: getAccessToken(), the request, the status check, or
\* nothing.
getUserTimeZone(tokenResult, arrived, status, value) ==
    IF tokenResult # "ok"
    THEN [error |-> "none", value |-> LocalTimeZone, cause |-> "token"]
    ELSE IF ~arrived
    THEN [error |-> "none", value |-> LocalTimeZone, cause |-> "transport"]
    ELSE IF status # 200
    THEN [error |-> "none", value |-> LocalTimeZone, cause |-> "status"]
    ELSE [error |-> "none", value |-> value, cause |-> "none"]

\* getUserTimeZone(): getAccessToken(), then the request, which rejects or is
\* answered with a status and a value.
GetUserTimeZone(arrived, status, value) ==
    \E resp \in TokenResponses(issued) :
        LET r == getAccessToken(cachedToken, data, storageOk, now, resp)
            z == getUserTimeZone(r.result, arrived, status, value)
        IN  /\ cachedToken' = r.cache
            /\ data' = r.data
            /\ issued' = Issue(issued, r.reqs, resp)
            /\ last' = Settled("getAccessToken", r.result, r.value, r.reqs, 0,
                              Holds(cachedToken, data))
            /\ api' = [op |-> "getUserTimeZone",
                       status |-> IF r.result = "ok" /\ arrived THEN status ELSE 0,
                       error |-> z.error, statusCode |-> 0, value |-> z.value,
                       cause |-> z.cause]
            /\ UNCHANGED <<now, storageOk, settings, loggedIn,
                           loginVars, syncVars, autoVars, lastView, viewVars,
                           raceVars>>

ZoneNext ==
    \/ \E arrived \in BOOLEAN, status \in ZoneStatuses, value \in AccountTimeZones :
          GetUserTimeZone(arrived, status, value)
    \/ AuthLogin
    \/ Tick

\* ------------------------------------------------- SyncService: auto-sync
\* Number of interval timers installed in one behaviour.
MaxTimers == 2

\* A plausible slip: stopAutoSync() forgets the timer without clearing it.
stopAutoSync_KeepTimer(id, ts) == [id |-> 0, timers |-> ts]

\* stopAutoSync(): the timer syncIntervalId names is cleared.
stopAutoSync(id, ts) ==
    [id |-> 0, timers |-> IF id # 0 THEN ts \ {id} ELSE ts]

\* A plausible slip: startAutoSync() without the stopAutoSync() it begins with.
startAutoSync_NoStop(id, ts, n, auto) ==
    IF ~auto
    THEN [id |-> id, timers |-> ts, n |-> n, sync |-> FALSE]
    ELSE [id |-> n + 1, timers |-> ts \cup {n + 1}, n |-> n + 1, sync |-> TRUE]

\* A plausible slip: startAutoSync() does not look at settings.autoSync.
startAutoSync_IgnoreSetting(id, ts, n, auto) ==
    LET s == stopAutoSync(id, ts)
    IN  [id |-> n + 1, timers |-> s.timers \cup {n + 1}, n |-> n + 1, sync |-> TRUE]

\* startAutoSync(): syncIntervalId, the active timers and the number of timers
\* installed afterwards, and whether syncNow() was called.
startAutoSync(id, ts, n, auto) ==
    LET s == stopAutoSync(id, ts)
    IN  IF ~auto
        THEN [id |-> s.id, timers |-> s.timers, n |-> n, sync |-> FALSE]
        ELSE [id |-> n + 1, timers |-> s.timers \cup {n + 1}, n |-> n + 1,
              sync |-> TRUE]

\* restartAutoSync()
restartAutoSync(id, ts, n, auto) ==
    LET s == stopAutoSync(id, ts)
    IN  startAutoSync(s.id, s.timers, n, auto)

\* The effect of a start r: the timer state, and the initial syncNow().
AutoStarted(r, k) ==
    /\ syncIntervalId' = r.id
    /\ timers' = r.timers
    /\ timerIds' = r.n
    /\ IF r.sync
       THEN SyncNowCall(k)
       ELSE /\ emitted' = <<>>
            /\ UNCHANGED <<authVars, loginVars, state, events, sy, selectedCalendars,
                           gen, invoked, nList, nBatch, lastSuccess, apiVars>>
    /\ UNCHANGED autoSync

\* The effect of a stop s.
AutoStopped(s) ==
    /\ syncIntervalId' = s.id
    /\ timers' = s.timers
    /\ emitted' = <<>>
    /\ UNCHANGED <<authVars, loginVars, state, events, sy, selectedCalendars,
                   gen, invoked, nList, nBatch, lastSuccess, apiVars, autoSync,
                   timerIds>>

StartAutoSync(k) ==
    /\ timerIds < MaxTimers
    /\ AutoStarted(startAutoSync(syncIntervalId, timers, timerIds, autoSync), k)
    /\ UNCHANGED <<toggling, due, called, syncedAt>>

RestartAutoSync(k) ==
    /\ timerIds < MaxTimers
    /\ AutoStarted(restartAutoSync(syncIntervalId, timers, timerIds, autoSync), k)
    /\ UNCHANGED <<toggling, due, called, syncedAt>>

StopAutoSync ==
    /\ AutoStopped(stopAutoSync(syncIntervalId, timers))
    /\ UNCHANGED <<toggling, due, called, syncedAt>>

\* The auto-sync toggle, which shows settings.autoSync, is switched to value:
\* settings.autoSync is assigned and saveSettings() is called (the storage
\* failing or not), which the handler awaits; when saveSettings() rejects
\* the handler does nothing more.  One handler is followed at a time.
ToggleAutoSync(value) ==
    /\ toggling = {}
    /\ value # autoSync
    /\ autoSync' = value
    /\ \E ok \in {storageOk, FALSE} :
        /\ data' = saveData(settings, data, ok)
        /\ toggling' = IF ok THEN {value} ELSE {}
    /\ last' = NoCall
    /\ emitted' = <<>>
    /\ UNCHANGED <<now, storageOk, settings, cachedToken, issued, loggedIn,
                   loginVars, state, events, sy, selectedCalendars, gen, invoked,
                   nList, nBatch, lastSuccess, apiVars, syncIntervalId, timers,
                   timerIds, due, called, syncedAt>>

\* saveSettings() resolves for the handler of value, which calls
\* startAutoSync() for true and stopAutoSync() for false.
ToggleSettled(value, k) ==
    /\ value \in toggling
    /\ toggling' = toggling \ {value}
    /\ IF value
       THEN /\ timerIds < MaxTimers
            /\ AutoStarted(startAutoSync(syncIntervalId, timers, timerIds,
                                         autoSync), k)
       ELSE AutoStopped(stopAutoSync(syncIntervalId, timers))

ToggleSettles(value, k) ==
    /\ ToggleSettled(value, k)
    /\ UNCHANGED <<due, called, syncedAt>>

\* An active interval timer fires: syncNow().
TimerFires(id, k) ==
    /\ id \in timers
    /\ SyncNowCall(k)
    /\ UNCHANGED autoVars

AutoNext ==
    \/ \E k \in Calls : StartAutoSync(k)
    \/ \E k \in Calls : RestartAutoSync(k)
    \/ StopAutoSync
    \/ \E value \in BOOLEAN : ToggleAutoSync(value)
    \/ \E value \in toggling, k \in Calls : ToggleSettles(value, k)
    \/ \E id \in 1 .. MaxTimers, k \in Calls : TimerFires(id, k)
    \/ \E k \in Calls : ListCalendarsSettles(k)
    \/ \E k \in Calls : \E i \in 1 .. MaxIds : ListEventsSettles(k, i)
    \/ \E k \in Calls : SaveDataSettles(k)

\* ---------------------------------------- SyncService: auto-sync in time
\* Number of clock steps followed.
MaxElapses == 4

\* The interval of the timer startAutoSync() installs, in milliseconds.
intervalMs == syncInterval * 60 * 1000

\* One clock step: half an interval, so that timers installed at different
\* times are due at different times.
ElapseMs == intervalMs \div 2

\* The step just taken is the auto-sync call named: it is logged, a timer it
\* installed is due one interval from now, and an invocation of syncNow()
\* is dated.
Timed(call) ==
    /\ called' = call
    /\ due' = [id \in timers' |-> IF id \in timers /\ id \in DOMAIN due
                                  THEN due[id] ELSE now + intervalMs]
    /\ syncedAt' = IF invoked' # invoked THEN now ELSE syncedAt

StartAutoSyncAt(k) ==
    /\ timerIds < MaxTimers
    /\ AutoStarted(startAutoSync(syncIntervalId, timers, timerIds, autoSync), k)
    /\ UNCHANGED toggling
    /\ Timed("startAutoSync")

RestartAutoSyncAt(k) ==
    /\ timerIds < MaxTimers
    /\ AutoStarted(restartAutoSync(syncIntervalId, timers, timerIds, autoSync), k)
    /\ UNCHANGED toggling
    /\ Timed("restartAutoSync")

StopAutoSyncAt ==
    /\ AutoStopped(stopAutoSync(syncIntervalId, timers))
    /\ UNCHANGED toggling
    /\ Timed("stopAutoSync")

\* onunload(): stopAutoSync().
Onunload ==
    /\ AutoStopped(stopAutoSync(syncIntervalId, timers))
    /\ UNCHANGED toggling
    /\ Timed("onunload")

ToggleSettlesAt(value, k) ==
    /\ ToggleSettled(value, k)
    /\ Timed(IF value THEN "startAutoSync" ELSE "stopAutoSync")

\* The interval timer id is due: its callback calls syncNow(), and it is due
\* again one interval later.
IntervalFires(id, k) ==
    /\ id \in timers
    /\ due[id] = now
    /\ SyncNowCall(k)
    /\ due' = [due EXCEPT ![id] = now + intervalMs]
    /\ called' = "timer"
    /\ syncedAt' = now
    /\ UNCHANGED <<autoSync, syncIntervalId, timers, timerIds, toggling>>

\* The clock moves on, once the timers that are due have fired.
Elapse ==
    /\ now < MaxElapses * ElapseMs
    /\ \A id \in timers : due[id] > now
    /\ now' = now + ElapseMs
    /\ last' = NoCall
    /\ UNCHANGED <<storageOk, data, settings, cachedToken, issued, loggedIn,
                   loginVars, syncVars, apiVars, autoVars>>

TimerNext ==
    \/ \E k \in Calls : StartAutoSyncAt(k)
    \/ \E k \in Calls : RestartAutoSyncAt(k)
    \/ StopAutoSyncAt
    \/ Onunload
    \/ \E value \in BOOLEAN : ToggleAutoSync(value)
    \/ \E value \in toggling, k \in Calls : ToggleSettlesAt(value, k)
    \/ \E id \in 1 .. MaxTimers, k \in Calls : IntervalFires(id, k)
    \/ Elapse
    \/ \E k \in Calls : ListCalendarsSettles(k)

AutoInit ==
    /\ autoSync = TRUE
    /\ syncIntervalId = 0
    /\ timers = {}
    /\ timerIds = 0
    /\ toggling = {}
    /\ due = <<>>
    /\ called = "none"
    /\ syncedAt = -1

\* ------------------------------------------------------ plugin: a session
\* The cache of the TokenManager onload() creates: cachedToken = null, and
\* onload() does not call initialize().
newTokenManager(d) == NoToken

\* onload() of a new session, the one before having been unloaded:
\* loadSettings(), the services are created, and auto-sync is started when
\* settings.autoSync is set and auth.isAuthenticated().
PluginOnload(k) ==
    /\ storageOk
    /\ syncIntervalId = 0
    /\ timers = {}
    /\ settings' = data
    /\ cachedToken' = newTokenManager(data)
    /\ last' = NoCall
    /\ IF autoSync /\ isAuthenticated(cachedToken')
       THEN /\ timerIds < MaxTimers
            /\ LET r == startAutoSync(syncIntervalId, timers, timerIds, autoSync)
               IN  /\ syncIntervalId' = r.id
                   /\ timers' = r.timers
                   /\ timerIds' = r.n
            /\ SyncNowStarts(k)
       ELSE /\ emitted' = <<>>
            /\ UNCHANGED <<syncIntervalId, timers, timerIds, state, events, sy,
                           selectedCalendars, gen, invoked, nList, nBatch,
                           lastSuccess>>
    /\ called' = "onload"
    /\ UNCHANGED <<now, storageOk, data, issued, loggedIn, loginVars, apiVars,
                   autoSync, toggling, due, syncedAt>>

SessionNext ==
    \/ AuthLogin
    \/ AuthLogout
    \/ AuthGetAccessToken
    \/ Tick
    \/ \E k \in Calls : PluginOnload(k)

\* ------------------------------------------------ SyncService: read views
\* The instants events and queried ranges start and end at: around the day
\* that starts at DayMs, with its last millisecond.
RangeTimes ==
    {DayMs - HourMs, DayMs, DayMs + 10 * HourMs, 2 * DayMs - 1, 2 * DayMs,
     2 * DayMs + HourMs}

\* The events a fetch of calendarId may have brought: timed ones, an all-day
\* one of the day that starts at DayMs, and one with neither dateTime nor date.
CachedEvents(calendarId) ==
    {[transformEvent(calendarId, 1) EXCEPT !.start.dateTime = p[1],
                                           !.end.dateTime = p[2]] :
        p \in {q \in RangeTimes \X RangeTimes : q[1] <= q[2]}}
    \cup {[transformEvent(calendarId, 1) EXCEPT !.start = [dateTime |-> 0, date |-> DayMs],
                                               !.end = [dateTime |-> 0, date |-> 2 * DayMs]],
          [transformEvent(calendarId, 1) EXCEPT !.start = [dateTime |-> 0, date |-> 0],
                                               !.end = [dateTime |-> 0, date |-> 0]]}

\* The caches a successful sync may leave: of no, one or two calendars.
ViewCaches ==
    {<<>>, <<[k |-> "c1", v |-> <<>>]>>}
    \cup {<<[k |-> "c1", v |-> <<e>>]>> : e \in CachedEvents("c1")}
    \cup {<<[k |-> "c1", v |-> <<e1>>], [k |-> "c2", v |-> <<e2>>]>> :
            e1 \in CachedEvents("c1"),
            e2 \in {e \in CachedEvents("c2") :
                       e.start.dateTime \in {0, DayMs + 10 * HourMs}}}

\* The time zones followed, in milliseconds east of UTC.
TimeZones == {0, HourMs}

\* A read view changes nothing; its result is kept in lastView.
ViewFrame ==
    UNCHANGED <<authVars, loginVars, syncVars, api, autoVars, viewVars, raceVars>>

GetAllEvents ==
    /\ lastView' = [NoView EXCEPT !.op = "getAllEvents",
                                  !.result = getAllEvents(events)]
    /\ ViewFrame

GetEventsForCalendar(calendarId) ==
    /\ lastView' = [NoView EXCEPT !.op = "getEventsForCalendar", !.id = calendarId,
                                  !.result = getEventsForCalendar(events, calendarId)]
    /\ ViewFrame

GetEventsInRange(start, end) ==
    /\ lastView' = [NoView EXCEPT !.op = "getEventsInRange", !.start = start,
                                  !.end = end,
                                  !.result = getEventsInRange(events, start, end, now)]
    /\ ViewFrame

GetEventsForDay(date, tz) ==
    /\ lastView' = [NoView EXCEPT !.op = "getEventsForDay", !.date = date, !.tz = tz,
                                  !.result = getEventsForDay(events, date, tz, now)]
    /\ ViewFrame

\* A successful sync has left a cache.
ViewInit ==
    /\ AuthInit /\ LoginInit /\ ApiInit /\ AutoInit
    /\ events \in ViewCaches
    /\ state = updateState(IdleState, [status |-> "success", lastSync |-> 0,
                                       nextSync |-> calculateNextSync(0)])
    /\ sy = [k \in Calls |-> NoSync]
    /\ selectedCalendars = {}
    /\ gen = 1
    /\ invoked = 1
    /\ nList = 1
    /\ nBatch = 1
    /\ lastSuccess = getAllEvents(events)
    /\ emitted = <<>>

ViewNext ==
    \/ GetAllEvents
    \/ \E calendarId \in Cals \cup {"c3"} : GetEventsForCalendar(calendarId)
    \/ \E start \in RangeTimes, end \in RangeTimes : GetEventsInRange(start, end)
    \/ \E date \in {DayMs + 10 * HourMs, 2 * DayMs - 1}, tz \in TimeZones :
          GetEventsForDay(date, tz)

\* ------------------------------------------------------------ TimelineView
\* convertEventToTimelineItem(event): the item's id, its start and end (of
\* dateTime, else of date), and the event it shows.
convertEventToTimelineItem(event) ==
    [id |-> event.id,
     start |-> IF event.start.dateTime # 0 THEN event.start.dateTime
               ELSE event.start.date,
     end |-> IF event.end.dateTime # 0 THEN event.end.dateTime ELSE event.end.date,
     event |-> event]

\* refreshTimeline(): nothing without a timeline; else the DataSet is cleared
\* and filled with the items of getEventsForDay(currentDate).
refreshTimeline(open, shown, cache, date, t) ==
    IF ~open THEN shown
    ELSE LET evs == getEventsForDay(cache, date, 0, t)
         IN  [i \in DOMAIN evs |-> convertEventToTimelineItem(evs[i])]

\* The days the view is navigated over: the one of the clock and the next.
ViewDates == {0, DayMs}

\* Nothing of the services changes when the view acts.
TimelineFrame ==
    /\ emitted' = <<>>
    /\ UNCHANGED <<authVars, loginVars, state, events, sy, selectedCalendars, gen,
                   invoked, nList, nBatch, lastSuccess, api, lastView, autoVars,
                   raceVars>>

\* activateView(): a TimelineView is created, currentDate = new Date(), and
\* onOpen() creates the timeline and loads it.
TimelineOnOpen ==
    /\ ~timeline
    /\ timeline' = TRUE
    /\ currentDate' = now
    /\ items' = refreshTimeline(TRUE, <<>>, events, now, now)
    /\ TimelineFrame

\* onClose(): the timeline is destroyed.
TimelineOnClose ==
    /\ timeline
    /\ timeline' = FALSE
    /\ items' = <<>>
    /\ UNCHANGED currentDate
    /\ TimelineFrame

\* The user clicks the refresh button.
RefreshClick ==
    /\ timeline
    /\ items' = refreshTimeline(timeline, items, events, currentDate, now)
    /\ UNCHANGED <<timeline, currentDate>>
    /\ TimelineFrame

\* The user clicks the previous-day or the next-day button: navigateDay(delta)
\* and updateTimeline().
NavigateDay(delta) ==
    /\ timeline
    /\ currentDate + delta * DayMs \in ViewDates
    /\ currentDate' = currentDate + delta * DayMs
    /\ items' = refreshTimeline(timeline, items, events, currentDate', now)
    /\ UNCHANGED timeline
    /\ TimelineFrame

\* The user clicks the Today button: goToToday() and updateTimeline().
GoToToday ==
    /\ timeline
    /\ currentDate' = now
    /\ items' = refreshTimeline(timeline, items, events, now, now)
    /\ UNCHANGED timeline
    /\ TimelineFrame

\* The view and the syncs the plugin runs while it is there.
TimelineNext ==
    \/ TimelineOnOpen
    \/ TimelineOnClose
    \/ RefreshClick
    \/ \E delta \in {-1, 1} : NavigateDay(delta)
    \/ GoToToday
    \/ \E k \in Calls : SyncNow(k)
    \/ \E k \in Calls : ListCalendarsSettles(k)
    \/ \E k \in Calls : \E i \in 1 .. MaxIds : ListEventsSettles(k, i)
    \/ \E k \in Calls : SaveDataSettles(k)

\* ------------------------------------------------- SyncService: destroy()
\* destroy(): stopAutoSync(), then clearCache().
Destroy ==
    /\ ~destroyed
    /\ LET s == stopAutoSync(syncIntervalId, timers)
       IN  /\ syncIntervalId' = s.id
           /\ timers' = s.timers
    /\ events' = <<>>
    /\ lastSuccess' = <<>>
    /\ emitted' = <<>>
    /\ destroyed' = TRUE
    /\ UNCHANGED <<authVars, loginVars, state, sy, selectedCalendars, gen, invoked,
                   nList, nBatch, api, lastView, viewVars, tk, autoSync, timerIds,
                   toggling, due, called, syncedAt>>

\* startAutoSync() and syncNow() are called on a service that has not been
\* destroyed.
StartBeforeDestroy(k) ==
    /\ ~destroyed
    /\ StartAutoSync(k)

SyncBeforeDestroy(k) ==
    /\ ~destroyed
    /\ SyncNow(k)

DestroyNext ==
    \/ \E k \in Calls : StartBeforeDestroy(k)
    \/ \E k \in Calls : SyncBeforeDestroy(k)
    \/ \E id \in 1 .. MaxTimers, k \in Calls : TimerFires(id, k)
    \/ \E k \in Calls : ListCalendarsSettles(k)
    \/ \E k \in Calls : \E i \in 1 .. MaxIds : ListEventsSettles(k, i)
    \/ \E k \in Calls : SaveDataSettles(k)
    \/ Destroy

\* ----------------------------------- GoogleAuth: calls that overlap in time
Waiting(c) == c.pc \notin {"idle", "settled"}

Refreshing(c) == c.pc \in {"refresh", "requesting", "saveLoading", "saveWriting"}

\* A call settles.
SettledFlight(c, result, value) ==
    [c EXCEPT !.pc = "settled", !.result = result, !.value = value]

\* The slots when a call starts in slot k as c: the calls that settled before
\* are forgotten, and a getAccessToken() marks the getAccessToken() calls it
\* overlaps.
StartFlight(k, c) ==
    [j \in Flights |->
        IF j = k THEN c
        ELSE IF tk[j].pc = "settled" THEN NoFlight
        ELSE IF Waiting(tk[j]) /\ tk[j].op = c.op /\ c.op = "getAccessToken"
        THEN [tk[j] EXCEPT !.ov = TRUE]
        ELSE tk[j]]

FlightFrame ==
    UNCHANGED <<now, storageOk, settings, last, loginVars, syncVars, api, lastView,
                viewVars, destroyed, autoVars>>

\* getAccessToken() is called and its getToken() settles: no token, a token
\* to return, or an expired one, for which refreshToken() is called.
GetAccessTokenCalled(k) ==
    /\ ~Waiting(tk[k])
    /\ \A j \in Flights : j < k => Waiting(tk[j])
    /\ LET g == getToken(cachedToken, data, storageOk, now)
           c == [NoFlight EXCEPT !.op = "getAccessToken", !.token = g.ret,
                                 !.ov = \E j \in Flights \ {k} :
                                            /\ Waiting(tk[j])
                                            /\ tk[j].op = "getAccessToken"]
       IN  /\ cachedToken' = g.cache
           /\ tk' = StartFlight(k,
                        IF IsNull(g.ret) THEN SettledFlight(c, "AuthenticationError", 0)
                        ELSE IF isTokenExpired(g.ret, now) THEN [c EXCEPT !.pc = "refresh"]
                        ELSE SettledFlight(c, "ok", g.ret.access))
    /\ UNCHANGED <<data, issued, loggedIn>>
    /\ FlightFrame

\* The getToken() of refreshToken() settles: without a refresh token the call
\* fails, else the request goes to the token endpoint.
RefreshGetsToken(k) ==
    /\ tk[k].pc = "refresh"
    /\ LET g == getToken(cachedToken, data, storageOk, now)
       IN  /\ cachedToken' = g.cache
           /\ tk' = [tk EXCEPT ![k] =
                        IF IsNull(g.ret) \/ g.ret.refresh = 0
                        THEN SettledFlight(@, "AuthenticationError", 0)
                        ELSE [@ EXCEPT !.pc = "requesting", !.token = g.ret,
                                       !.reqs = @ + 1]]
    /\ UNCHANGED <<data, issued, loggedIn>>
    /\ FlightFrame

\* The token endpoint answers: the call fails, or saveToken(updatedToken) is
\* called, which awaits loadData().
TokenEndpointAnswers(k) ==
    /\ tk[k].pc = "requesting"
    /\ \E resp \in TokenResponses(issued) :
        /\ issued' = Issue(issued, 1, resp)
        /\ tk' = [tk EXCEPT ![k] =
                     IF resp.kind # "ok"
                     THEN SettledFlight(@, "AuthenticationError", 0)
                     ELSE [@ EXCEPT !.pc = "saveLoading",
                                    !.token = [@ EXCEPT !.access = resp.access,
                                                        !.expires_in = resp.expires_in,
                                                        !.expires_at =
                                                            now + resp.expires_in * 1000]]]
    /\ UNCHANGED <<cachedToken, data, loggedIn>>
    /\ FlightFrame

\* saveToken(): loadData() settles, the token is set in the object loaded and
\* saveData() is awaited.
SaveTokenLoads(k) ==
    /\ tk[k].pc = "saveLoading"
    /\ tk' = [tk EXCEPT ![k] = [@ EXCEPT !.pc = "saveWriting",
                                         !.ld = [data EXCEPT !.token = tk[k].token]]]
    /\ UNCHANGED <<cachedToken, data, issued, loggedIn>>
    /\ FlightFrame

\* saveToken(): saveData() settles, the cache is set and refreshToken()
\* returns the new access token; or the write fails and with it the call.
SaveTokenWrites(k) ==
    /\ tk[k].pc = "saveWriting"
    /\ \E ok \in {storageOk, FALSE} :
        /\ data' = saveData(tk[k].ld, data, ok)
        /\ cachedToken' = IF ok THEN tk[k].token ELSE cachedToken
        /\ tk' = [tk EXCEPT ![k] =
                     IF ok THEN SettledFlight(@, "ok", tk[k].token.access)
                     ELSE SettledFlight(@, "AuthenticationError", 0)]
    /\ UNCHANGED <<issued, loggedIn>>
    /\ FlightFrame

\* logout() is called: clearToken() awaits loadData().
LogoutCalled(k) ==
    /\ ~Waiting(tk[k])
    /\ \A j \in Flights : j < k => Waiting(tk[j])
    /\ tk' = StartFlight(k, [NoFlight EXCEPT !.op = "logout", !.pc = "clearLoading",
                                             !.ov = \E j \in Flights \ {k} :
                                                        Refreshing(tk[j])])
    /\ loggedIn' = FALSE
    /\ UNCHANGED <<cachedToken, data, issued>>
    /\ FlightFrame

\* clearToken(): loadData() settles, the token key is deleted from the object
\* loaded and saveData() is awaited.
ClearTokenLoads(k) ==
    /\ tk[k].pc = "clearLoading"
    /\ tk' = [tk EXCEPT ![k] = [@ EXCEPT !.pc = "clearWriting",
                                         !.ld = [data EXCEPT !.token = NoToken]]]
    /\ UNCHANGED <<cachedToken, data, issued, loggedIn>>
    /\ FlightFrame

\* clearToken(): saveData() settles, the cache is emptied and logout() is done;
\* or the write fails and with it the call.
ClearTokenWrites(k) ==
    /\ tk[k].pc = "clearWriting"
    /\ \E ok \in {storageOk, FALSE} :
        /\ data' = saveData(tk[k].ld, data, ok)
        /\ cachedToken' = IF ok THEN NoToken ELSE cachedToken
        /\ tk' = [tk EXCEPT ![k] = SettledFlight(@, IF ok THEN "ok" ELSE "Error", 0)]
    /\ UNCHANGED <<issued, loggedIn>>
    /\ FlightFrame

\* The user logs in, once and before any of the calls followed.
FirstLogin ==
    /\ issued = 0
    /\ \A k \in Flights : tk[k] = NoFlight
    /\ AuthLogin

FlightNext ==
    \/ FirstLogin
    \/ Tick
    \/ \E k \in Flights : GetAccessTokenCalled(k)
    \/ \E k \in Flights : RefreshGetsToken(k)
    \/ \E k \in Flights : TokenEndpointAnswers(k)
    \/ \E k \in Flights : SaveTokenLoads(k)
    \/ \E k \in Flights : SaveTokenWrites(k)
    \/ \E k \in Flights : LogoutCalled(k)
    \/ \E k \in Flights : ClearTokenLoads(k)
    \/ \E k \in Flights : ClearTokenWrites(k)

vars == <<authVars, loginVars, syncVars, apiVars, autoVars>>

Init == AuthInit /\ LoginInit /\ SyncInit /\ ApiInit /\ AutoInit

SpecAuth == Init /\ [][AuthNext]_vars

SpecStore == Init /\ [][StoreNext]_vars

SpecLogin == Init /\ [][LoginNext]_vars

SpecSync == Init /\ [][SyncNext]_vars

SpecBatch == Init /\ [][BatchNext]_vars

SpecApi == Init /\ [][ApiNext]_vars

SpecAuto == Init /\ [][AutoNext]_vars

SpecTimer == Init /\ [][TimerNext]_vars

SpecZone == Init /\ [][ZoneNext]_vars

SpecSession == Init /\ [][SessionNext]_vars

SpecView == ViewInit /\ [][ViewNext]_vars

\* What a sync awaits settles in the end; nothing makes the user act.
SyncFairness ==
    /\ \A k \in Calls : WF_vars(ListCalendarsSettles(k))
    /\ \A k \in Calls : WF_vars(\E i \in 1 .. MaxIds : ListEventsSettles(k, i))
    /\ \A k \in Calls : WF_vars(SaveDataSettles(k))

SpecOverlap == Init /\ [][OverlapNext]_vars

SpecDestroy == Init /\ [][DestroyNext]_vars

SpecFlight == Init /\ [][FlightNext]_vars

SpecSyncFair == Init /\ [][SyncNext]_vars /\ SyncFairness

SpecTimeline == Init /\ [][TimelineNext]_vars /\ SyncFairness

\* ================================================================ claims
\* The syncs in progress: past the guard, not yet settled.
InFlight == {k \in Calls : ~sy[k].direct /\ sy[k].pc \in {"listing", "fetching", "saving"}}

\* C1: a syncNow() invoked while the status is syncing returns without
\* calling listCalendars() or listEventsForMultipleCalendars() and without
\* changing the sync state or the cache; so at most one sync is in progress
\* at any time, the status is syncing exactly while one is, and every batch
\* fetch belongs to a sync that passed the guard alone.
C1_SyncMutualExclusion ==
    /\ [](/\ Cardinality(InFlight) <= 1
          /\ state.status = "syncing" <=> InFlight # {}
          /\ nList = gen
          /\ nBatch <= nList)
    /\ [][\A k \in Calls :
            (SyncNow(k) /\ state.status = "syncing") =>
                /\ nList' = nList
                /\ nBatch' = nBatch
                /\ state' = state
                /\ events' = events
                /\ sy' = sy]_vars

\* C1's case: a syncNow() was invoked while another sync was in its batch
\* fetch, and was turned away.
C1_Witness ==
    /\ \E k \in InFlight : sy[k].pc = "fetching"
    /\ invoked = 2
    /\ gen = 1
    /\ nList = 1
    /\ nBatch = 1

\* C2: when a syncNow() ends in error status, getAllEvents() returns exactly
\* the events cached by the most recent sync that ended in success (nothing
\* if none has), whichever step of the sync failed.
C2_FailedSyncKeepsCache ==
    [][(state.status = "syncing" /\ state'.status = "error")
           => getAllEvents(events') = lastSuccess']_vars

\* C3: a batch fetch called on its own never rejects; when it has returned,
\* its Map has exactly one entry per distinct requested id, and the entry of
\* an id is what a fetch of that id settled with: the events fetched when it
\* succeeded, the empty list when it failed.
C3_BatchFetch ==
    \A k \in Calls :
        sy[k].direct =>
            /\ sy[k].pc # "rejected"
            /\ sy[k].pc = "returned" =>
                /\ Len(sy[k].results) = Cardinality({sy[k].ids[j] : j \in DOMAIN sy[k].ids})
                /\ {sy[k].results[i].k : i \in DOMAIN sy[k].results}
                       = {sy[k].ids[j] : j \in DOMAIN sy[k].ids}
                /\ \A i \in DOMAIN sy[k].results :
                       \E j \in DOMAIN sy[k].ids :
                           /\ sy[k].ids[j] = sy[k].results[i].k
                           /\ sy[k].results[i].v =
                                  IF sy[k].outcomes[j].st = "ok"
                                  THEN sy[k].outcomes[j].evs
                                  ELSE <<>>

\* C3's case: a batch for two calendars has returned, the first calendar's
\* fetch failed and the second one's gave an event.
C3_Witness ==
    \E k \in Calls :
        /\ sy[k].direct
        /\ sy[k].pc = "returned"
        /\ sy[k].ids = <<"c1", "c2">>
        /\ sy[k].outcomes[1].st = "fail"
        /\ sy[k].results = <<[k |-> "c2", v |-> sy[k].outcomes[2].evs],
                             [k |-> "c1", v |-> <<>>]>>
        /\ sy[k].outcomes[2].evs # <<>>

\* What the read views return in the current state.
Views ==
    {getAllEvents(events), getEventsInRange(events, 0, DayMs, now),
     getEventsForDay(events, 12 * HourMs, 0, now)}
    \cup {getEventsForCalendar(events, c) : c \in Cals}

\* C4: whenever a read view is invoked, every event it returns is of one and
\* the same sync, and none is of a sync whose batch fetch has not returned
\* yet: the views show the previous cache or the new sync's result whole,
\* never a mixture.
C4_ViewsNeverMixed ==
    \A view \in Views :
        /\ \A i, j \in DOMAIN view : view[i].gen = view[j].gen
        /\ \A k \in InFlight :
               sy[k].pc \in {"listing", "fetching"} =>
                   \A i \in DOMAIN view : view[i].gen # sy[k].g

\* C4's case: a sync's batch has fetched the events of one calendar and waits
\* for the other, while the views show the events of the sync before.
C4_Witness ==
    \E k \in InFlight :
        /\ sy[k].pc = "fetching"
        /\ getAllEvents(sy[k].results) # <<>>
        /\ \E j \in DOMAIN sy[k].outcomes : sy[k].outcomes[j].st = "pending"
        /\ getAllEvents(events) # <<>>
        /\ getEventsForDay(events, 12 * HourMs, 0, now) # <<>>

\* The token the Token Store's get() hands to a caller in the current state.
StoredToken == getToken(cachedToken, data, storageOk, now).ret

\* Not expired, by the store's buffered check: more than 5 minutes of the
\* token's lifetime are left.
Fresh(token) == token.expires_at # 0 /\ now + 5 * 60 * 1000 < token.expires_at

C6_GetAccessTokenWhileLoggedIn ==
    (loggedIn /\ storageOk /\ last.op = "getAccessToken")
        => (last.result = "ok" \/ last.tokenReqs = 1)

\* C9: after revokeToken() has settled (the storage working), the Token Store
\* holds no token, neither persisted nor cached, whatever the provider
\* answered to the revocation request.
C9_RevokeEmptiesStore ==
    (storageOk /\ last.op = "revokeToken")
        => (IsNull(data.token) /\ IsNull(cachedToken))

\* C10: logout() sends no request to the provider; when it fulfils, the
\* persisted token record and the cached token are gone, isAuthenticated() is
\* false, and a getAccessToken() called next fails with AuthenticationError
\* without contacting the provider.
C10_Logout ==
    /\ [](last.op = "logout" =>
            /\ last.tokenReqs = 0
            /\ last.revokeReqs = 0
            /\ last.result = "ok" =>
                   /\ IsNull(data.token)
                   /\ IsNull(cachedToken)
                   /\ ~isAuthenticated(cachedToken))
    /\ [][(last.op = "logout" /\ last.result = "ok" /\ AuthGetAccessToken) =>
            /\ last'.result = "AuthenticationError"
            /\ last'.tokenReqs = 0]_vars

\* C10's case: a logout() that fulfilled with a token in the store.
C10_Witness ==
    /\ last.op = "logout"
    /\ last.result = "ok"
    /\ last.had
    /\ IsNull(cachedToken)

\* C7: on every exit path of login() (success, error callback, window closed
\* by the user, timeout, exchange rejected, token save failure) the auth
\* window the call opened is no longer open when the call has settled, and
\* close() was called on it exactly once unless the user had closed it
\* (then never); every failure path rejects with AuthenticationError.
C7_LoginClosesWindow ==
    \A k \in Logins :
        /\ windows[k].closeCalls <= 1
        /\ lg[k].pc = "done" =>
            /\ windows[k].state # "open"
            /\ windows[k].state = "closed" <=> windows[k].closeCalls = 1
            /\ lg[k].path = "code" <=> lg[k].result = "ok"
            /\ lg[k].path \in {"error", "closed", "timeout", "exchange", "save"}
                   <=> lg[k].result = "AuthenticationError"

\* C7's case: a login() that failed to save the token, its window closed by
\* the finally block.
C7_Witness ==
    \E k \in Logins :
        /\ lg[k].pc = "done"
        /\ lg[k].path = "save"
        /\ windows[k].state = "closed"
        /\ windows[k].closeCalls = 1

\* C8: the wait for the OAuth callback is never pending more than 5 minutes
\* after it started: the timeout then rejects it, and login() fails with
\* AuthenticationError.
C8_WaitTimesOut ==
    \A k \in Logins :
        /\ lg[k].pc = "waiting" => now <= lg[k].start + 5 * 60 * 1000
        /\ lg[k].path = "timeout" =>
            /\ lg[k].pc = "done"
            /\ lg[k].result = "AuthenticationError"
            /\ now >= lg[k].start + 5 * 60 * 1000

\* C8's case: a login() whose wait timed out.
C8_Witness ==
    \E k \in Logins :
        /\ lg[k].path = "timeout"
        /\ lg[k].result = "AuthenticationError"
        /\ now = lg[k].start + 5 * 60 * 1000

\* C11: a refreshToken() that succeeds persists a token record whose access
\* token and expiry are those of the provider's response and whose refresh
\* token is the one the response carries, or the original one when it
\* carries none; it returns the new access token.
C11_RefreshPersistsNewToken ==
    [][\A resp \in TokenResponses(issued) :
          (AuthRefreshTokenWith(resp) /\ last'.result = "ok") =>
              /\ data'.token.access = resp.access
              /\ data'.token.expires_in = resp.expires_in
              /\ data'.token.expires_at = now + resp.expires_in * 1000
              /\ data'.token.refresh = IF resp.refresh # 0 THEN resp.refresh
                                        ELSE StoredToken.refresh
              /\ cachedToken' = data'.token
              /\ last'.value = resp.access
    ]_vars

SavedAs(token, t) ==
    IF token.expires_at = 0 /\ token.expires_in # 0
    THEN [token EXCEPT !.expires_at = t + token.expires_in * 1000]
    ELSE token

\* C13: a get(), and a getSync(), that follows a successful save(token)
\* immediately returns the token saved: with expires_at = save time +
\* expires_in * 1000 when it was absent and a lifetime was given, and as
\* supplied otherwise.
C13_SaveThenGet ==
    [][(/\ last.op = "saveToken"
        /\ last.result = "ok"
        /\ StoreGetToken \/ StoreGetTokenSync) =>
           /\ last'.result = "ok"
           /\ last'.token = SavedAs(last.token, now)
    ]_vars

\* C13's case: get() returned a token that was saved without expires_at at
\* this instant, its expiry computed from the lifetime.
C13_Witness ==
    /\ last.op = "getToken"
    /\ last.token.access = 9
    /\ last.token.expires_in = 400
    /\ now > 0
    /\ last.token.expires_at = now + 400 * 1000

\* C14: get() never rejects; with a token cached and not expired it returns
\* the cached token and reads no storage; otherwise it returns the persisted
\* record and caches it, or null (the cache left as it was) when there is no
\* record or the storage cannot be read.
C14_GetToken ==
    [][StoreGetToken =>
        /\ last'.result = "ok"
        /\ IF ~IsNull(cachedToken) /\ Fresh(cachedToken)
           THEN /\ last'.token = cachedToken
                /\ last'.loads = 0
                /\ cachedToken' = cachedToken
           ELSE IF storageOk /\ ~IsNull(data.token)
           THEN /\ last'.token = data.token
                /\ cachedToken' = data.token
           ELSE /\ IsNull(last'.token)
                /\ cachedToken' = cachedToken
    ]_vars

\* C14's case: a get() that found nothing usable in the cache, returned the
\* persisted record and cached it.
C14_Witness ==
    /\ last.op = "getToken"
    /\ last.loads = 1
    /\ ~IsNull(last.token)
    /\ last.token = data.token
    /\ cachedToken = last.token

\* C15: isExpired(token) is true exactly when the token has no expires_at or
\* the current time is at or after expires_at minus 5 minutes: false whenever
\* expires_at is more than 5 minutes ahead, true for a token with neither
\* expires_at nor expires_in.
C15_IsExpired ==
    last.op = "isTokenExpired" =>
        /\ last.value = 1 <=>
               (last.token.expires_at = 0 \/ now >= last.token.expires_at - 5 * 60 * 1000)
        /\ (last.token.expires_at # 0 /\ last.token.expires_at > now + 5 * 60 * 1000)
               => last.value = 0
        /\ (last.token.expires_at = 0 /\ last.token.expires_in = 0) => last.value = 1

\* C15's case: isExpired() called at the very instant 5 minutes before the
\* token's expiry.
C15_Witness ==
    /\ last.op = "isTokenExpired"
    /\ last.token.expires_at # 0
    /\ now = last.token.expires_at - 5 * 60 * 1000
    /\ last.value = 1

\* C16: for every HTTP status a response to listCalendars, listEvents or
\* getEvent comes back with: 401 and 403 raise AuthenticationError, 500 and
\* above NetworkError, every other status outside 200..299 APIError carrying
\* the status, and a status in 200..299 raises nothing.
C16_ErrorClassification ==
    api.status # 0 =>
        /\ api.status \in {401, 403} => api.error = "AuthenticationError"
        /\ api.status >= 500 => api.error = "NetworkError"
        /\ api.status \in 200 .. 299 => api.error = "none"
        /\ (api.status \notin 200 .. 299 /\ api.status \notin {401, 403} /\ api.status < 500)
               => (api.error = "APIError" /\ api.statusCode = api.status)

\* The elements of a sequence.
Range(seq) == {seq[i] : i \in DOMAIN seq}

\* C17: the batch fetch of a sync is invoked with exactly the ids of the
\* account's calendars that are in settings.selectedCalendars, each once, or
\* with the ids of all the account's calendars when that setting is empty; an
\* id that is selected but is not among the account's calendars is not
\* fetched.
C17_SelectedCalendarsFetched ==
    \A k \in InFlight :
        sy[k].pc = "fetching" =>
            /\ Range(sy[k].ids) =
                   IF selectedCalendars = {} THEN Range(sy[k].cals)
                   ELSE Range(sy[k].cals) \cap selectedCalendars
            /\ Len(sy[k].ids) = Cardinality(Range(sy[k].ids))
            /\ Range(sy[k].ids) \subseteq Range(sy[k].cals)
            /\ DOMAIN sy[k].outcomes = DOMAIN sy[k].ids

\* C17's case: the account has c1 and c2, the settings select c2 and a
\* calendar the account does not have; the batch fetches c2 alone.
C17_Witness ==
    \E k \in InFlight :
        /\ sy[k].pc = "fetching"
        /\ selectedCalendars = {"c2", "c3"}
        /\ sy[k].cals = <<"c1", "c2">>
        /\ sy[k].ids = <<"c2">>

\* C18: when listCalendars() has succeeded and none of the calendars it gave
\* is to be synced, syncNow() fails: the batch fetch is not invoked, the
\* status becomes error with the message recorded, a failure Notice with
\* that message is shown, and the cache is unchanged.
C18_EmptySelectionFails ==
    [][\A k \in Calls : \A out \in ListCalendarsOutcomes :
          (/\ ListCalendarsSettlesWith(k, out)
           /\ out.ok
           /\ \A c \in Range(out.cals) : selectedCalendars # {} /\ c \notin selectedCalendars) =>
              /\ nBatch' = nBatch
              /\ sy'[k].pc = "idle"
              /\ state'.status = "error"
              /\ state'.error = "No calendars selected for sync"
              /\ FailedNotice("No calendars selected for sync") \in Range(emitted')
              /\ events' = events
    ]_vars

\* C18's case: a sync has just failed for want of calendars to sync, the
\* cache still holding the events of the sync before.
C18_Witness ==
    /\ state.status = "error"
    /\ state.error = "No calendars selected for sync"
    /\ FailedNotice("No calendars selected for sync") \in Range(emitted)
    /\ events # <<>>
    /\ getAllEvents(events) = lastSuccess
    /\ lastSuccess # <<>>

\* The places in what a step emitted where an event of that name stands.
Emitted(seq, name) == {i \in DOMAIN seq : seq[i].name = name}

\* C19: the step that ends a sync in success emits exactly one
\* 'google-calendar:events-updated', after the state change to success and
\* carrying the flattened content of the cache; no other step (a sync ending
\* in error, a call turned away by the guard) emits one; every change of the
\* sync state emits a 'google-calendar:sync-state-changed' carrying the new
\* state.
C19_Notifications ==
    [][/\ Cardinality(Emitted(emitted', "google-calendar:events-updated")) =
              IF state.status = "syncing" /\ state'.status = "success" THEN 1 ELSE 0
       /\ \A i \in Emitted(emitted', "google-calendar:events-updated") :
              /\ emitted'[i].events = getAllEvents(events')
              /\ \E j \in Emitted(emitted', "google-calendar:sync-state-changed") :
                     j < i /\ emitted'[j].state.status = "success"
       /\ state' # state =>
              \E j \in Emitted(emitted', "google-calendar:sync-state-changed") :
                  emitted'[j].state = state'
    ]_vars

\* C19's case: a sync has just ended in success and has announced the events
\* it cached.
C19_Witness ==
    /\ state.status = "success"
    /\ \E i \in Emitted(emitted, "google-calendar:events-updated") :
           /\ emitted[i].events # <<>>
           /\ emitted[i].events = getAllEvents(events)

\* C20: after any sequence of startAutoSync(), stopAutoSync() and
\* restartAutoSync() calls at most one interval timer is active, the one
\* syncIntervalId names; a start cancels the timer installed before it
\* installs a new one.
C20_OneSyncTimer ==
    /\ [](/\ Cardinality(timers) <= 1
          /\ timers = IF syncIntervalId = 0 THEN {} ELSE {syncIntervalId})
    /\ [][\A k \in Calls :
            (StartAutoSync(k) \/ RestartAutoSync(k)) =>
                /\ timers \cap timers' = {}
                /\ autoSync => (timers' = {timerIds'} /\ timerIds' = timerIds + 1)]_vars

\* C20's case: auto-sync was started again while a timer was active; only
\* the new timer is active.
C20_Witness ==
    /\ timerIds = 2
    /\ syncIntervalId = 2
    /\ timers = {2}
    /\ invoked = 2

\* C21: with auto-sync disabled in the settings startAutoSync() starts no
\* sync (syncNow() is not invoked, no provider call is made, the sync state
\* stays as it is) and installs no timer.
C21_DisabledStartIsNoOp ==
    [][\A k \in Calls :
        (~autoSync /\ (StartAutoSyncAt(k) \/ ToggleSettlesAt(TRUE, k))) =>
            /\ invoked' = invoked
            /\ nList' = nList
            /\ gen' = gen
            /\ state' = state
            /\ sy' = sy
            /\ emitted' = <<>>
            /\ timerIds' = timerIds
            /\ timers' \subseteq timers
            /\ syncIntervalId' = 0]_vars

\* C21's case: startAutoSync() has been called with auto-sync disabled, and
\* no sync and no timer has been started.
C21_Witness ==
    /\ called = "startAutoSync"
    /\ ~autoSync
    /\ invoked = 0
    /\ nList = 0
    /\ timerIds = 0
    /\ timers = {}

\* C22: auto-sync invokes syncNow() exactly while a timer is active: once
\* at once when startAutoSync() runs with auto-sync enabled, which installs
\* the timer; then once per interval, each invocation one interval after the
\* one before; stopAutoSync() and onunload() leave no timer, and no timer
\* fires after them until startAutoSync() is called again.
C22_AutoSyncInvocations ==
    /\ [](syncIntervalId = 0 => timers = {})
    /\ [][/\ \A k \in Calls :
              (autoSync /\ (\/ StartAutoSyncAt(k)
                            \/ RestartAutoSyncAt(k)
                            \/ ToggleSettlesAt(TRUE, k))) =>
                  /\ invoked' = invoked + 1
                  /\ syncIntervalId' # 0
                  /\ syncIntervalId' \notin timers
                  /\ due'[syncIntervalId'] = now + intervalMs
          /\ \A id \in 1 .. MaxTimers, k \in Calls :
              IntervalFires(id, k) =>
                  /\ id = syncIntervalId
                  /\ invoked' = invoked + 1
                  /\ now - syncedAt = intervalMs
                  /\ called \in {"startAutoSync", "restartAutoSync", "timer"}
          /\ (StopAutoSyncAt \/ Onunload) => (timers' = {} /\ invoked' = invoked)
          /\ invoked' # invoked => timers' = {syncIntervalId'}]_vars

\* C22's case: auto-sync was started and its timer has fired twice, an
\* interval apart.
C22_Witness ==
    /\ called = "timer"
    /\ invoked = 3
    /\ syncedAt = 2 * intervalMs
    /\ timers = {syncIntervalId}

\* The number of events the cache m holds before its i-th calendar.
RECURSIVE EventsBefore(_, _)
EventsBefore(m, i) ==
    IF i = 1 THEN 0 ELSE EventsBefore(m, i - 1) + Len(m[i - 1].v)

\* C23: a read view makes no provider or storage call and leaves the cache
\* and the sync state as they are; getAllEvents() returns the calendars'
\* cached lists one after the other, getEventsForCalendar(id) the list cached
\* under id, or the empty list when the cache has no such id.
C23_ReadViews ==
    [][(\/ GetAllEvents
        \/ \E calendarId \in Cals \cup {"c3"} : GetEventsForCalendar(calendarId)
        \/ \E start \in RangeTimes, end \in RangeTimes : GetEventsInRange(start, end)
        \/ \E date \in RangeTimes, tz \in TimeZones : GetEventsForDay(date, tz)) =>
            /\ UNCHANGED <<events, state, sy, lastSuccess, emitted>>
            /\ UNCHANGED <<nList, nBatch, gen, invoked, api>>
            /\ UNCHANGED <<data, storageOk, settings, cachedToken, issued>>
            /\ lastView'.op = "getAllEvents" =>
                /\ Len(lastView'.result) = EventsBefore(events, Len(events) + 1)
                /\ \A i \in DOMAIN events : \A j \in DOMAIN events[i].v :
                       lastView'.result[EventsBefore(events, i) + j] = events[i].v[j]
            /\ lastView'.op = "getEventsForCalendar" =>
                /\ \A i \in DOMAIN events :
                       events[i].k = lastView'.id => lastView'.result = events[i].v
                /\ (\A i \in DOMAIN events : events[i].k # lastView'.id) =>
                       lastView'.result = <<>>]_vars

\* C23's case: getEventsForCalendar() was called for an id the cache does
\* not know, while the cache holds events of two calendars.
C23_Witness ==
    /\ lastView.op = "getEventsForCalendar"
    /\ lastView.id = "c3"
    /\ lastView.result = <<>>
    /\ Len(events) = 2
    /\ Len(getAllEvents(events)) = 2

\* The computed start and end of a cached event: its dateTime, else its
\* date, else the time of the call.
EventStart(event) ==
    IF event.start.dateTime # 0 THEN event.start.dateTime
    ELSE IF event.start.date # 0 THEN event.start.date ELSE now

EventEnd(event) ==
    IF event.end.dateTime # 0 THEN event.end.dateTime
    ELSE IF event.end.date # 0 THEN event.end.date ELSE now

\* C24: getEventsInRange(start, end) returns, in cache order, exactly the
\* cached events with eventStart < end and eventEnd > start: an event that
\* reaches into the range from before or out of it at the end is returned,
\* an event that ends by the range's start or starts at or after its end is
\* not.
C24_EventsInRange ==
    lastView.op = "getEventsInRange" =>
        LET all == getAllEvents(events)
            in(event) == \E i \in DOMAIN lastView.result : lastView.result[i] = event
        IN  /\ lastView.result =
                   SelectSeq(all, LAMBDA event : /\ EventStart(event) < lastView.end
                                                 /\ EventEnd(event) > lastView.start)
            /\ \A i \in DOMAIN all :
                /\ (/\ EventStart(all[i]) < lastView.start
                    /\ lastView.start < EventEnd(all[i])
                    /\ EventEnd(all[i]) < lastView.end) => in(all[i])
                /\ (/\ lastView.start < EventStart(all[i])
                    /\ EventStart(all[i]) < lastView.end
                    /\ lastView.end < EventEnd(all[i])) => in(all[i])
                /\ EventEnd(all[i]) <= lastView.start => ~in(all[i])
                /\ EventStart(all[i]) >= lastView.end => ~in(all[i])

\* C24's case: of two cached events the range query returned the one that
\* begins before the range and ends within it, and not the one that begins
\* at the range's end.
C24_Witness ==
    /\ lastView.op = "getEventsInRange"
    /\ Len(getAllEvents(events)) = 2
    /\ Len(lastView.result) = 1
    /\ EventStart(lastView.result[1]) < lastView.start
    /\ EventEnd(lastView.result[1]) < lastView.end
    /\ \E i \in DOMAIN getAllEvents(events) :
           EventStart(getAllEvents(events)[i]) = lastView.end

\* The local midnight that starts the day of date, in the time zone tz.
LocalMidnight(date, tz) == date - ((date + tz) % DayMs)

\* C25: getEventsForDay(date) returns what getEventsInRange returns for the
\* range from the local midnight that starts date's day to the local
\* midnight that starts the next day.
C25_DayIsMidnightToMidnight ==
    lastView.op = "getEventsForDay" =>
        lastView.result =
            getEventsInRange(events, LocalMidnight(lastView.date, lastView.tz),
                             LocalMidnight(lastView.date, lastView.tz) + DayMs, now)

\* The keys of a Map.
Keys(m) == {m[i].k : i \in DOMAIN m}

\* The events of the cache m are all of the sync numbered g.
AllOfSync(m, g) == \A i \in DOMAIN m : \A n \in DOMAIN m[i].v : m[i].v[n].gen = g

\* C26: the cache holds each calendar id once, and every event under the id
\* its calendarId field names; when a sync replaces the cache, and when it
\* ends in success, the cache's keys are exactly the calendars that sync
\* fetched and every event is of that sync (or the cache was emptied by
\* clearCache() while the sync saved).
C26_CacheByCalendar ==
    /\ [](/\ \A i, j \in DOMAIN events : events[i].k = events[j].k => i = j
          /\ \A i \in DOMAIN events : \A n \in DOMAIN events[i].v :
                 events[i].v[n].calendarId = events[i].k)
    /\ [][\A k \in Calls :
            /\ (\E i \in 1 .. MaxIds : ListEventsSettles(k, i) /\ sy'[k].pc = "saving") =>
                  /\ Keys(events') = Range(sy[k].ids)
                  /\ AllOfSync(events', sy[k].g)
            /\ (SaveDataSettles(k) /\ state'.status = "success") =>
                  \/ events' = <<>>
                  \/ /\ Keys(events') = Range(sy[k].ids)
                     /\ AllOfSync(events', sy[k].g)]_vars

\* C26's case: the second sync, of calendar c1 alone, has ended in success,
\* and the cache holds c1 alone, with events of that sync.
C26_Witness ==
    /\ state.status = "success"
    /\ gen = 2
    /\ Keys(events) = {"c1"}
    /\ events[1].v # <<>>
    /\ \E i \in DOMAIN lastSuccess : lastSuccess[i].gen = 2
    /\ nBatch = 2

C28_TimeZoneFallback ==
    api.op = "getUserTimeZone" =>
        /\ api.error = "none"
        /\ api.status # 200 => api.value = LocalTimeZone
        /\ api.cause \in {"token", "transport", "status"} => api.value = LocalTimeZone

\* C28's case: getUserTimeZone() was answered with status 500, by an account
\* whose zone is not the local one, and returned the local zone.
C28_Witness ==
    /\ api.op = "getUserTimeZone"
    /\ api.status = 500
    /\ api.cause = "status"
    /\ api.value = LocalTimeZone
    /\ api.error = "none"

\* C29: when the plugin's storage holds a token, then after onload()
\* isAuthenticated() is true, and auto-sync has been started if it is
\* enabled in the settings.
C29_SessionPersists ==
    [][\A k \in Calls :
        (PluginOnload(k) /\ ~IsNull(data.token)) =>
            /\ isAuthenticated(cachedToken')
            /\ autoSync => (syncIntervalId' # 0 /\ invoked' = invoked + 1)]_vars

\* C30: listCalendars() marks a calendar the provider marks hidden or deleted
\* as not selected, and the calendars a sync fetches are marked selected or
\* are among settings.selectedCalendars.
C30_HiddenCalendarsNotSynced ==
    /\ \A id \in Cals :
           (CalendarListEntry(id).hidden \/ CalendarListEntry(id).deleted) =>
               ~transformCalendar(CalendarListEntry(id)).selected
    /\ \A k \in Calls :
           (~sy[k].direct /\ sy[k].pc = "fetching") =>
               \A i \in DOMAIN sy[k].ids :
                   \/ transformCalendar(CalendarListEntry(sy[k].ids[i])).selected
                   \/ sy[k].ids[i] \in selectedCalendars

\* C31: after a sync has completed in success while a timeline view is open,
\* the view comes to display the events the new cache holds for its current
\* day, or is closed, without the user acting.
C31_ViewRefreshedAfterSync ==
    (timeline /\ Emitted(emitted, "google-calendar:events-updated") # {})
        ~> (~timeline \/ items = refreshTimeline(TRUE, items, events, currentDate, now))

\* A step of a syncNow() call: it is invoked, or what it awaits settles.
SyncNowStep ==
    \/ invoked' = invoked + 1
    \/ \E k \in Calls : /\ sy[k].pc \in {"listing", "fetching", "saving"}
                        /\ sy'[k] # sy[k]

\* C32: the sync status starts at idle, only steps of syncNow() change the
\* sync state, and the status moves only from idle, success or error to
\* syncing and from syncing to success or error.
C32_StatusTransitions ==
    /\ state.status = "idle"
    /\ [][/\ state' # state => SyncNowStep
          /\ state'.status # state.status =>
                <<state.status, state'.status>> \in
                    {<<"idle", "syncing">>, <<"success", "syncing">>,
                     <<"error", "syncing">>, <<"syncing", "success">>,
                     <<"syncing", "error">>}]_vars

\* A sync has failed after an earlier one had succeeded.
C32_Witness ==
    /\ state.status = "error"
    /\ state.lastSync # -1
    /\ invoked >= 2

\* The messages of the errors a sync fails with.
SyncErrorMessages ==
    {"Failed to fetch calendars", "No calendars selected for sync",
     "Failed to fetch events", "Failed to save data"}

\* C33: status error comes with the message of the error thrown; syncing and
\* success come without a message; success comes with lastSync and nextSync;
\* and lastSync changes only in the step in which a sync succeeds.
C33_SyncStateInvariants ==
    /\ [](/\ state.status = "error" => state.error \in SyncErrorMessages
          /\ state.status \in {"syncing", "success"} => state.error = ""
          /\ state.status = "success" => (state.lastSync # -1 /\ state.nextSync # -1))
    /\ [][state'.lastSync # state.lastSync =>
             (state.status = "syncing" /\ state'.status = "success")]_vars

\* A sync has failed for want of a selected calendar after an earlier one had
\* succeeded: the state carries the message and the earlier lastSync.
C33_Witness ==
    /\ state.status = "error"
    /\ state.error = "No calendars selected for sync"
    /\ state.lastSync # -1

\* C34: when what a syncNow() awaits settles in the end, a status of syncing
\* leads to success or error; and the status is syncing only while a
\* syncNow() call is waiting, so that the guard does not hold for ever.
C34_SyncingEnds ==
    /\ (state.status = "syncing") ~> (state.status \in {"success", "error"})
    /\ [](state.status = "syncing" =>
              \E k \in Calls : sy[k].pc \in {"listing", "fetching", "saving"})
    /\ []<>(~syncGuard(state))

\* A sync went through the listing and the batch, and failed at the last
\* await, the write of the settings: it has settled in error.
C34_Witness ==
    /\ state.status = "error"
    /\ state.error = "Failed to save data"
    /\ \A k \in Calls : sy[k].pc = "idle"

\* C35: a write of the plugin settings (saveSettings(), or the write at the
\* end of a successful sync) leaves the persisted token record as it was, and
\* the Token Store's save and clear leave the persisted settings as they were.
C35_TokenRecordFrame ==
    [][/\ (data' # data /\ last'.op = "none") => data'.token = data.token
       /\ (data' # data /\ last'.op # "none") =>
              data'.lastSyncTime = data.lastSyncTime]_vars

\* C36: getAccessToken() calls that overlap while the stored token is expired
\* share one refresh: together they send at most one request to the token
\* endpoint, and once they have all settled each one that fulfilled has
\* returned the access token that is stored.
C36_OverlappingCallsShareRefresh ==
    /\ \A j \in Flights, k \in Flights :
          (j < k /\ tk[j].op = "getAccessToken" /\ tk[k].op = "getAccessToken"
                 /\ tk[j].ov /\ tk[k].ov) => tk[j].reqs + tk[k].reqs <= 1
    /\ (\A k \in Flights : ~Waiting(tk[k])) =>
          \A k \in Flights :
              (tk[k].op = "getAccessToken" /\ tk[k].ov /\ tk[k].result = "ok") =>
                  tk[k].value = data.token.access

\* C37: when a logout() called while a refresh was in flight has fulfilled
\* and the refresh has settled too, the Token Store holds nothing: no
\* persisted record and no cached token.
C37_LogoutDuringRefresh ==
    (/\ \A k \in Flights : ~Waiting(tk[k])
     /\ \E k \in Flights : tk[k].op = "logout" /\ tk[k].ov /\ tk[k].result = "ok")
        => (IsNull(data.token) /\ IsNull(cachedToken))

\* C38: when login() calls that overlapped have all settled, no auth window
\* that either of them opened is still open.
C38_OverlappingLoginsCloseWindows ==
    (/\ \A k \in Logins : lg[k].pc = "done"
     /\ \E k \in Logins : lg[k].overlap)
        => \A w \in Logins : windows[w].state # "open"

\* C39: once destroy() has been called the cache is empty and no auto-sync
\* timer is active, for good, and no events-updated notification is emitted:
\* a sync that was in flight at the time changes none of this.
C39_DestroyIsFinal ==
    destroyed =>
        /\ events = <<>>
        /\ timers = {}
        /\ syncIntervalId = 0
        /\ Emitted(emitted, "google-calendar:events-updated") = {}

\* C40: a sync that got calendars to fetch ends its batch with the cache
\* replaced by one entry per selected calendar, the events fetched or the
\* empty list where the fetch failed, whatever was cached before; and from
\* there it ends in success unless the write of the settings fails.
C40_FetchFailuresAreLocal ==
    [][\A k \in Calls :
          /\ (sy[k].pc = "fetching" /\ ~sy[k].direct /\ sy'[k].pc # "fetching") =>
                /\ sy'[k].pc = "saving"
                /\ Keys(events') = Range(sy[k].ids)
                /\ Len(events') = Len(sy[k].ids)
                /\ \A i \in DOMAIN sy[k].ids :
                      MapGet(events', sy[k].ids[i]) =
                          IF sy'[k].outcomes[i].st = "fail" THEN <<>>
                          ELSE sy'[k].outcomes[i].evs
          /\ (sy[k].pc = "saving" /\ sy'[k].pc = "idle") =>
                \/ state'.status = "success"
                \/ state'.status = "error" /\ state'.error = "Failed to save data"]_vars

\* Every fetch of a sync's batch has failed, the sync before having cached
\* events: the cache holds the empty list for each selected calendar, and the
\* sync is about to write the settings.
C40_Witness ==
    \E k \in Calls :
        /\ sy[k].pc = "saving"
        /\ \A i \in DOMAIN sy[k].outcomes : sy[k].outcomes[i].st = "fail"
        /\ lastSuccess # <<>>
        /\ Len(events) = Len(sy[k].ids)
        /\ getAllEvents(events) = <<>>

====
